---- MODULE Spec2Model ----
(***************************************************************************)
(* A model of the bypass matcher of regexp/bypass.go: the compiler that    *)
(* turns a parsed syntax tree into a fixed-length match program, and the   *)
(* byte/rune level matchers that execute the programs.                     *)
(*                                                                         *)
(* Strings are sequences of bytes (0..255).  Go offsets are 0-based, so    *)
(* s[b:e] is SubSeq(s, b+1, e).  Runes are integers.                       *)
(***************************************************************************)
EXTENDS Integers, Sequences, FiniteSets, TLC

\* ------------------------------------------------------------------------
\* unicode/utf8 as used by bypass.go
\* ------------------------------------------------------------------------

\* utf8.RuneError, the rune returned for malformed input
RuneError == 65533
\* utf8.MaxRune
MaxRune == 1114111
\* utf8.RuneSelf: bytes below it are single-byte runes
RuneSelf == 128

\* s[b:e] of Go
Slice(s, b, e) == SubSeq(s, b + 1, e)

\* s[b:] of Go
From(s, b) == SubSeq(s, b + 1, Len(s))

\* the bounds of the slice expression s[b:e] are in range: out of range, the
\* expression panics
SliceInRange(s, b, e) == 0 <= b /\ b <= e /\ e <= Len(s)

\* a continuation byte accepted in the range lo..hi
InRange(b, lo, hi) == lo <= b /\ b <= hi

\* utf8.DecodeRuneInString: <<rune, width>>; malformed or short input
\* decodes as (RuneError, 1), the empty string as (RuneError, 0)
DecodeRuneInString(s) ==
    IF Len(s) < 1 THEN <<RuneError, 0>>
    ELSE LET s0 == s[1]
             size == IF s0 < RuneSelf THEN 1
                     ELSE IF InRange(s0, 194, 223) THEN 2
                     ELSE IF InRange(s0, 224, 239) THEN 3
                     ELSE IF InRange(s0, 240, 244) THEN 4
                     ELSE 0
             lo1 == IF s0 = 224 THEN 160 ELSE IF s0 = 240 THEN 144 ELSE 128
             hi1 == IF s0 = 237 THEN 159 ELSE IF s0 = 244 THEN 143 ELSE 191
         IN  IF size = 1 THEN <<s0, 1>>
             ELSE IF size = 0 \/ Len(s) < size THEN <<RuneError, 1>>
             ELSE IF ~InRange(s[2], lo1, hi1) THEN <<RuneError, 1>>
             ELSE IF size = 2 THEN <<(s0 - 192) * 64 + (s[2] - 128), 2>>
             ELSE IF ~InRange(s[3], 128, 191) THEN <<RuneError, 1>>
             ELSE IF size = 3
                  THEN <<(s0 - 224) * 4096 + (s[2] - 128) * 64 + (s[3] - 128), 3>>
             ELSE IF ~InRange(s[4], 128, 191) THEN <<RuneError, 1>>
             ELSE <<(s0 - 240) * 262144 + (s[2] - 128) * 4096
                     + (s[3] - 128) * 64 + (s[4] - 128), 4>>

\* utf8.RuneStart: the byte is not a continuation byte
RuneStart(b) == ~InRange(b, 128, 191)

\* the start offset utf8.DecodeLastRuneInString settles on: it walks back from
\* start to lim looking for a byte that can start a rune
RECURSIVE LastRuneStart(_, _, _)
LastRuneStart(s, start, lim) ==
    IF start < lim THEN start
    ELSE IF RuneStart(s[start + 1]) THEN start
    ELSE LastRuneStart(s, start - 1, lim)

\* utf8.DecodeLastRuneInString: <<rune, width>> of the last rune of s
DecodeLastRuneInString(s) ==
    LET end == Len(s) IN
    IF end = 0 THEN <<RuneError, 0>>
    ELSE IF s[end] < RuneSelf THEN <<s[end], 1>>
    ELSE LET lim == IF end - 4 < 0 THEN 0 ELSE end - 4
             st0 == LastRuneStart(s, end - 2, lim)
             start == IF st0 < 0 THEN 0 ELSE st0
             d == DecodeRuneInString(Slice(s, start, end))
         IN  IF start + d[2] # end THEN <<RuneError, 1>> ELSE d

\* utf8.RuneLen: bytes needed to encode the rune, -1 if it is not encodable
RuneLen(r) ==
    IF r < 0 THEN -1
    ELSE IF r < 128 THEN 1
    ELSE IF r < 2048 THEN 2
    ELSE IF InRange(r, 55296, 57343) THEN -1
    ELSE IF r < 65536 THEN 3
    ELSE IF r <= MaxRune THEN 4
    ELSE -1

\* utf8.EncodeRune: the bytes of one rune; a rune that cannot be encoded is
\* written as RuneError
EncodeRune(r) ==
    LET q == IF RuneLen(r) = -1 THEN RuneError ELSE r IN
    IF q < 128 THEN <<q>>
    ELSE IF q < 2048 THEN <<192 + (q \div 64), 128 + (q % 64)>>
    ELSE IF q < 65536
         THEN <<224 + (q \div 4096), 128 + ((q \div 64) % 64), 128 + (q % 64)>>
    ELSE <<240 + (q \div 262144), 128 + ((q \div 4096) % 64),
           128 + ((q \div 64) % 64), 128 + (q % 64)>>

\* string(runes): the conversion of a []rune to a string
RECURSIVE RunesToString(_)
RunesToString(runes) ==
    IF runes = <<>> THEN <<>>
    ELSE EncodeRune(Head(runes)) \o RunesToString(Tail(runes))

\* the runes of s with their byte offsets, as `for idx, char := range s`
\* yields them: a sequence of <<idx, char, width>> starting at offset from
RECURSIVE RangeString(_, _)
RangeString(s, from) ==
    IF from >= Len(s) THEN <<>>
    ELSE LET d == DecodeRuneInString(From(s, from))
         IN  <<(<<from, d[1], d[2]>>)>> \o RangeString(s, from + d[2])

\* strings.Index: offset of the first occurrence of sub in s, -1 if none
Index(s, sub) ==
    LET hits == {i \in 0..(Len(s) - Len(sub)) : Slice(s, i, i + Len(sub)) = sub}
    IN  IF hits = {} THEN -1
        ELSE CHOOSE i \in hits : \A j \in hits : i <= j

\* ------------------------------------------------------------------------
\* rune width helpers
\* ------------------------------------------------------------------------

\* the loop of nextRunesWidth that counts no byte for a malformed rune
RECURSIVE nextRunesWidthStuck(_, _, _, _)
nextRunesWidthStuck(s, n, i, width) ==
    IF i < n /\ width < Len(s)
    THEN nextRunesWidthStuck(s, n, i + 1,
            width + (IF DecodeRuneInString(From(s, width)) = <<RuneError, 1>>
                     THEN 0
                     ELSE DecodeRuneInString(From(s, width))[2]))
    ELSE width

\* the loop of nextRunesWidth from iteration i with width bytes counted
RECURSIVE nextRunesWidthLoop(_, _, _, _)
nextRunesWidthLoop(s, n, i, width) ==
    IF i < n /\ width < Len(s)
    THEN nextRunesWidthLoop(s, n, i + 1,
                            width + DecodeRuneInString(From(s, width))[2])
    ELSE width

\* nextRunesWidth counting one byte for every rune
nextRunesWidthBytes(s, n) == IF n < Len(s) THEN n ELSE Len(s)

\* nextRunesWidth: the number of bytes that encode the next n runes
nextRunesWidth(s, n) == nextRunesWidthLoop(s, n, 0, 0)

\* the loop of lastRunesWidth from iteration i with width bytes counted
RECURSIVE lastRunesWidthLoop(_, _, _, _)
lastRunesWidthLoop(s, n, i, width) ==
    IF i < n
    THEN IF width >= Len(s) THEN -1
         ELSE lastRunesWidthLoop(s, n, i + 1,
                  width + DecodeLastRuneInString(Slice(s, 0, Len(s) - width))[2])
    ELSE width

\* lastRunesWidth counting one byte for every rune
lastRunesWidthBytes(s, n) == IF n <= Len(s) THEN n ELSE -1

\* lastRunesWidth: the number of bytes that encode the last n runes, -1 when
\* s holds fewer than n runes
lastRunesWidth(s, n) == lastRunesWidthLoop(s, n, 0, 0)

\* ------------------------------------------------------------------------
\* regexp/syntax trees, as compileByPass receives them
\* ------------------------------------------------------------------------

\* syntax.Flags values the walker compares tree.Flags with
POSIX == 0
Perl == 212
WasDollar == 256
FoldCase == 1

\* a *syntax.Regexp node: Op, Flags, Rune, Min, Max, Sub
Node(op, flags, rune, min, max, sub) ==
    [Op |-> op, Flags |-> flags, Rune |-> rune, Min |-> min, Max |-> max,
     Sub |-> sub]

\* ------------------------------------------------------------------------
\* steps and programs
\* ------------------------------------------------------------------------

\* a byPassStep with Go's zero values in the fields a kind does not use
byPassStep(op, classes, literal, char, length, minWidth, maxWidth) ==
    [op |-> op, classes |-> classes, literal |-> literal, char |-> char,
     length |-> length, previousLength |-> 0, minWidth |-> minWidth,
     maxWidth |-> maxWidth, minNextWidth |-> 0, anchored |-> FALSE,
     anchorIndex |-> 0]

\* &byPassProgAnchored{}
NewProgAnchored ==
    [kind |-> "Anchored", steps |-> <<>>, anchoredBegin |-> FALSE,
     anchoredEnd |-> FALSE, unmatchable |-> FALSE, length |-> 0,
     minWidth |-> 0, maxWidth |-> 0]

\* notByPass: no bypass program, the general matchers are used
notByPass == [kind |-> "None"]

\* a nil prefixProg, suffixProg or regexp of a byPassProgFirstPass
Nil == [kind |-> "Nil"]

\* &byPassProgUnmatchable{}
ProgUnmatchable == [kind |-> "Unmatchable"]

\* hasOps: some node of the trees, at any depth, has one of the ops
RECURSIVE hasOps(_, _)
hasOps(trees, ops) ==
    \E k \in 1..Len(trees) :
        trees[k].Op \in ops \/ hasOps(trees[k].Sub, ops)

\* the tail of traverseTree without the test of the end anchor: a content
\* step is added after a `$` as anywhere else
addStepAfterEnd(prog, step) ==
    [prog |-> [prog EXCEPT
                 !.length = prog.length + step.length,
                 !.steps = Append(prog.steps,
                     IF prog.anchoredBegin
                     THEN [step EXCEPT !.anchored = TRUE,
                                       !.anchorIndex = prog.length]
                     ELSE step)],
     bailout |-> FALSE]

\* the tail of traverseTree that anchors a new step by the number of steps
\* before it instead of their runes
addStepByCount(prog, step) ==
    IF prog.anchoredEnd
    THEN [prog |-> [prog EXCEPT !.unmatchable = TRUE], bailout |-> FALSE]
    ELSE LET st == IF prog.anchoredBegin
                   THEN [step EXCEPT !.anchored = TRUE,
                                     !.anchorIndex = Len(prog.steps)]
                   ELSE step
         IN  [prog |-> [prog EXCEPT !.length = prog.length + st.length,
                                    !.steps = Append(prog.steps, st)],
              bailout |-> FALSE]

\* the tail of traverseTree: a new content step is added to the program
addStep(prog, step) ==
    IF prog.anchoredEnd
    THEN [prog |-> [prog EXCEPT !.unmatchable = TRUE], bailout |-> FALSE]
    ELSE LET st == IF prog.anchoredBegin
                   THEN [step EXCEPT !.anchored = TRUE,
                                     !.anchorIndex = prog.length]
                   ELSE step
         IN  [prog |-> [prog EXCEPT !.length = prog.length + st.length,
                                    !.steps = Append(prog.steps, st)],
              bailout |-> FALSE]

\* the OpEndText loop that anchors every step by its own length, without
\* adding up the lengths of the steps to its right
anchorFromRightLast(steps, i, right) ==
    [k \in 1..Len(steps) |->
        [steps[k] EXCEPT !.anchored = TRUE,
                         !.anchorIndex = right - steps[k].length]]

\* the OpEndText loop: steps i, i-1, .. 1 get their anchorIndex from the right
RECURSIVE anchorFromRight(_, _, _)
anchorFromRight(steps, i, right) ==
    IF i < 1 THEN steps
    ELSE LET r == right - steps[i].length
         IN  anchorFromRight([steps EXCEPT ![i].anchored = TRUE,
                                           ![i].anchorIndex = r], i - 1, r)

\* the single-character exclusion shape of a class: [0, c-1, c+1, MaxRune]
IsSingleExclusion(rune) ==
    /\ Len(rune) = 4
    /\ rune[1] = 0
    /\ rune[4] = MaxRune
    /\ rune[2] + 2 = rune[3]

\* the OpLiteral case of traverseTree that always makes a new step and
\* never appends to the previous one
traverseLiteralNew(prog, tree) ==
    addStep(prog,
            byPassStep("byPassOpLiteral", <<>>, RunesToString(tree.Rune), 0,
                       Len(tree.Rune), Len(RunesToString(tree.Rune)),
                       Len(RunesToString(tree.Rune))))

\* the OpLiteral case of traverseTree: the runes are appended to the
\* previous step if it is a literal and no `$` has been walked, else they
\* make a new step
traverseLiteral(prog, tree) ==
    LET n == Len(prog.steps)
        str == RunesToString(tree.Rune)
    IN  IF n > 0 /\ prog.steps[n].op = "byPassOpLiteral" /\ ~prog.anchoredEnd
        THEN [prog |->
                [prog EXCEPT
                   !.steps[n].literal = prog.steps[n].literal \o str,
                   !.steps[n].length = prog.steps[n].length + Len(tree.Rune),
                   !.steps[n].minWidth = prog.steps[n].minWidth + Len(str),
                   !.steps[n].maxWidth = prog.steps[n].maxWidth + Len(str),
                   !.length = prog.length + Len(tree.Rune)],
              bailout |-> FALSE]
        ELSE addStep(prog,
                byPassStep("byPassOpLiteral", <<>>, str, 0,
                           Len(tree.Rune), Len(str), Len(str)))

RECURSIVE traverseTree(_, _)
RECURSIVE traverseSubs(_, _, _)
RECURSIVE traverseRepeat(_, _, _)

\* the OpConcat loop after the walk of a child returned r: a bail-out is
\* returned at once, else the loop goes on with subs[i..]
traverseSubsNext(r, subs, i) ==
    IF r.bailout THEN r ELSE traverseSubs(r.prog, subs, i)

\* the OpConcat loop of traverseTree over subs[i..]
traverseSubs(prog, subs, i) ==
    IF i > Len(subs) THEN [prog |-> prog, bailout |-> FALSE]
    ELSE traverseSubsNext(traverseTree(prog, subs[i]), subs, i + 1)

\* the OpRepeat loop that goes on with the next walk of the child whether
\* or not the last one bailed out
traverseRepeatNextAll(r, sub, n) == traverseRepeat(r.prog, sub, n)

\* the OpRepeat loop after a walk of the child returned r, n walks to go
traverseRepeatNext(r, sub, n) ==
    IF r.bailout THEN r ELSE traverseRepeat(r.prog, sub, n)

\* the OpRepeat loop of traverseTree: n more walks of the child
traverseRepeat(prog, sub, n) ==
    IF n <= 0 THEN [prog |-> prog, bailout |-> FALSE]
    ELSE traverseRepeatNext(traverseTree(prog, sub), sub, n - 1)

\* traverseTree: visits each node to detect fixed-length patterns; returns
\* the program as the walk left it and whether the walk bailed out
traverseTree(prog, tree) ==
    IF tree.Flags # Perl /\ tree.Flags # POSIX /\ tree.Flags # Perl + WasDollar
    THEN [prog |-> prog, bailout |-> TRUE]
    ELSE CASE tree.Op = "OpConcat" -> traverseSubs(prog, tree.Sub, 1)
           [] tree.Op = "OpRepeat" ->
                IF tree.Min # tree.Max THEN [prog |-> prog, bailout |-> TRUE]
                ELSE traverseRepeat(prog, tree.Sub[1], tree.Min)
           [] tree.Op = "OpLiteral" -> traverseLiteral(prog, tree)
           [] tree.Op = "OpBeginText" ->
                IF prog.length > 0
                THEN [prog |-> [prog EXCEPT !.unmatchable = TRUE],
                      bailout |-> FALSE]
                ELSE [prog |-> [prog EXCEPT !.anchoredBegin = TRUE],
                      bailout |-> FALSE]
           [] tree.Op = "OpEndText" ->
                [prog |->
                    [prog EXCEPT
                       !.anchoredEnd = TRUE,
                       !.steps = IF ~prog.anchoredBegin
                                 THEN anchorFromRight(prog.steps,
                                                      Len(prog.steps), 0)
                                 ELSE prog.steps],
                 bailout |-> FALSE]
           [] tree.Op = "OpAnyCharNotNL" ->
                addStep(prog, byPassStep("byPassOpNegativeCharClass", <<>>,
                                         <<10>>, 10, 1, 1, -1))
           [] tree.Op = "OpAnyChar" ->
                addStep(prog, byPassStep("byPassOpAnyChar", <<>>, <<>>, 0,
                                         1, 1, -1))
           [] tree.Op = "OpNoMatch" ->
                [prog |-> [prog EXCEPT !.unmatchable = TRUE], bailout |-> FALSE]
           [] tree.Op = "OpCharClass" ->
                IF IsSingleExclusion(tree.Rune)
                THEN addStep(prog,
                        byPassStep("byPassOpNegativeCharClass", <<>>,
                                   EncodeRune(tree.Rune[2] + 1),
                                   tree.Rune[2] + 1, 1, 1, -1))
                ELSE addStep(prog,
                        byPassStep("byPassOpCharClass", tree.Rune, <<>>, 0,
                                   1, 1, -1))
           [] OTHER -> [prog |-> prog, bailout |-> TRUE]

\* the first loop of computeWidth over steps k.., carrying the program and
\* previousLength
RECURSIVE computeWidthSweep(_, _, _)
computeWidthSweep(prog, k, previousLength) ==
    IF k > Len(prog.steps) THEN prog
    ELSE LET step == prog.steps[k]
         IN  computeWidthSweep(
                [prog EXCEPT
                   !.length = prog.length + step.length,
                   !.minWidth = prog.minWidth + step.minWidth,
                   !.steps[k].previousLength = previousLength,
                   !.maxWidth = IF step.maxWidth # -1 /\ prog.maxWidth # -1
                                THEN prog.maxWidth + step.maxWidth
                                ELSE -1],
                k + 1, previousLength + step.length)

\* the second loop of computeWidth that gives every step the minWidth of
\* the program, without taking off the bytes of the steps before it
computeMinNextWhole(steps, k, minNextWidth) ==
    [j \in 1..Len(steps) |->
        IF j < k THEN steps[j]
        ELSE [steps[j] EXCEPT !.minNextWidth = minNextWidth]]

\* the second loop of computeWidth: minNextWidth of steps k..
RECURSIVE computeMinNext(_, _, _)
computeMinNext(steps, k, minNextWidth) ==
    IF k > Len(steps) THEN steps
    ELSE computeMinNext([steps EXCEPT ![k].minNextWidth = minNextWidth],
                        k + 1, minNextWidth - steps[k].minWidth)

\* computeWidth that does not reset prog.length before it adds up the
\* lengths of the steps
computeWidthNoReset(prog) ==
    LET p == computeWidthSweep(prog, 1, 0)
    IN  [p EXCEPT !.steps = computeMinNext(p.steps, 1, p.minWidth)]

\* computeWidth: the byte widths of a byPassProgAnchored from its steps
computeWidth(prog) ==
    LET p == computeWidthSweep([prog EXCEPT !.length = 0], 1, 0)
    IN  [p EXCEPT !.steps = computeMinNext(p.steps, 1, p.minWidth)]

\* ------------------------------------------------------------------------
\* compileByPass
\* ------------------------------------------------------------------------

\* compileParsed: the general-matcher Regexp of a tree.  The handle keeps the
\* tree as it is at the time of the call (Simplify and syntax.Compile build
\* their own program from it).
compileParsed(tree) == [kind |-> "Regexp", tree |-> tree]

\* &byPassProgFirstPass{}
NewProgFirstPass ==
    [kind |-> "FirstPass", prefixProg |-> Nil, suffixProg |-> Nil,
     regexp |-> Nil]

RECURSIVE prefixLoop(_, _, _, _)

\* the loop of compileByPassPartialPrefix after the walk of child i (0-based)
\* returned r: a bail-out breaks the loop, else validsteps is updated
prefixLoopNext(r, subs, i, validsteps) ==
    IF r.bailout
    THEN [prog |-> r.prog, i |-> i, validsteps |-> validsteps]
    ELSE prefixLoop(r.prog, subs, i + 2, Len(r.prog.steps))

\* the loop of compileByPassPartialPrefix from child subs[i]: returns the
\* program, the 0-based index i the loop stopped at and validsteps
prefixLoop(prog, subs, i, validsteps) ==
    IF i > Len(subs)
    THEN [prog |-> prog, i |-> i - 1, validsteps |-> validsteps]
    ELSE prefixLoopNext(traverseTree(prog, subs[i]), subs, i - 1, validsteps)

BeginOps == {"OpBeginText", "OpBeginLine", "OpWordBoundary", "OpNoWordBoundary"}

EndOps == {"OpEndText", "OpEndLine", "OpWordBoundary", "OpNoWordBoundary"}

\* the prefix is stored: the program and the tree with children 1..i-1
\* spliced out (tree.Sub = append(tree.Sub[0:1], tree.Sub[i:]...))
prefixStore(firstpassprog, tree, prefixProg, newtree) ==
    [prog |-> [firstpassprog EXCEPT !.prefixProg = prefixProg,
                                    !.regexp = compileParsed(newtree)],
     tree |-> newtree]

\* compileByPassPartialPrefix after its loop returned l, without the test
\* of the operations of the children it leaves in the tree
prefixExtractAnyRest(firstpassprog, tree, l) ==
    IF l.validsteps > 0 /\ l.i > 1
    THEN prefixStore(firstpassprog, tree,
            computeWidth([l.prog EXCEPT
                            !.steps = SubSeq(l.prog.steps, 1, l.validsteps)]),
            [tree EXCEPT !.Sub = SubSeq(tree.Sub, 1, 1)
                                 \o SubSeq(tree.Sub, l.i + 1, Len(tree.Sub))])
    ELSE [prog |-> firstpassprog, tree |-> tree]

\* compileByPassPartialPrefix after its loop returned l
prefixExtract(firstpassprog, tree, l) ==
    IF /\ l.validsteps > 0
       /\ l.i > 1
       /\ ~hasOps(SubSeq(tree.Sub, l.i + 1, Len(tree.Sub)), BeginOps)
    THEN prefixStore(firstpassprog, tree,
            computeWidth([l.prog EXCEPT
                            !.steps = SubSeq(l.prog.steps, 1, l.validsteps)]),
            [tree EXCEPT !.Sub = SubSeq(tree.Sub, 1, 1)
                                 \o SubSeq(tree.Sub, l.i + 1, Len(tree.Sub))])
    ELSE [prog |-> firstpassprog, tree |-> tree]

\* compileByPassPartialPrefix: a fixed-length prefix is extracted from the
\* tree if possible; returns the first-pass program and the tree, which the
\* extraction rewrites in place
compileByPassPartialPrefix(firstpassprog, tree) ==
    IF tree.Sub[1].Op = "OpBeginText"
    THEN prefixExtract(firstpassprog, tree,
                       prefixLoop(NewProgAnchored, tree.Sub, 1, 0))
    ELSE [prog |-> firstpassprog, tree |-> tree]

RECURSIVE suffixLoop(_, _, _, _)

\* the loop of compileByPassPartialSuffix after the walk of child i (0-based)
\* returned r: on a bail-out the program is reset and i is the last invalid
\* child
suffixLoopNext(r, subs, i, lastInvalid) ==
    IF r.bailout THEN suffixLoop(NewProgAnchored, subs, i + 2, i)
    ELSE suffixLoop(r.prog, subs, i + 2, lastInvalid)

\* the loop of compileByPassPartialSuffix from child subs[i]: returns the
\* suffix program and the 0-based index lastInvalid
suffixLoop(prog, subs, i, lastInvalid) ==
    IF i > Len(subs) THEN [prog |-> prog, lastInvalid |-> lastInvalid]
    ELSE suffixLoopNext(traverseTree(prog, subs[i]), subs, i - 1, lastInvalid)

\* the suffix is stored, and the regexp of the prefix extraction, if there
\* is one, is kept
suffixStoreKeeps(firstpassprog, suffixProg, newtree) ==
    [prog |-> [firstpassprog EXCEPT
                 !.suffixProg = suffixProg,
                 !.regexp = IF firstpassprog.regexp # Nil
                            THEN firstpassprog.regexp
                            ELSE compileParsed(newtree)],
     tree |-> newtree]

\* the suffix is stored: the program and the tree cut down to its head and
\* its last child (tree.Sub = append(tree.Sub[:lastInvalid+1], last))
suffixStore(firstpassprog, suffixProg, newtree) ==
    [prog |-> [firstpassprog EXCEPT !.suffixProg = suffixProg,
                                    !.regexp = compileParsed(newtree)],
     tree |-> newtree]

\* compileByPassPartialSuffix after its loop returned l
suffixExtract(firstpassprog, tree, l) ==
    IF /\ Len(l.prog.steps) > 0
       /\ l.lastInvalid < Len(tree.Sub) - 1
       /\ ~hasOps(SubSeq(tree.Sub, 1, l.lastInvalid + 1), EndOps)
    THEN suffixStore(firstpassprog, computeWidth(l.prog),
            [tree EXCEPT !.Sub = Append(SubSeq(tree.Sub, 1, l.lastInvalid + 1),
                                        tree.Sub[Len(tree.Sub)])])
    ELSE [prog |-> firstpassprog, tree |-> tree]

\* compileByPassPartialSuffix: a fixed-length suffix is extracted from the
\* tree if possible; returns the first-pass program and the rewritten tree
compileByPassPartialSuffix(firstpassprog, tree) ==
    IF Len(tree.Sub) > 1 /\ tree.Sub[Len(tree.Sub)].Op = "OpEndText"
    THEN suffixExtract(firstpassprog, tree,
                       suffixLoop(NewProgAnchored, tree.Sub, 1, 0))
    ELSE [prog |-> firstpassprog, tree |-> tree]

\* compileByPass once both extractions have run: fp is their result, the
\* first-pass program and the tree
compileFirstPass(fp) ==
    IF fp.prog.prefixProg # Nil \/ fp.prog.suffixProg # Nil THEN fp
    ELSE [prog |-> notByPass, tree |-> fp.tree]

\* compileByPassPartialSuffix applied to what compileByPassPartialPrefix
\* returned
compilePartial(pre) ==
    compileFirstPass(compileByPassPartialSuffix(pre.prog, pre.tree))

\* compileByPass without the conversion to an unanchored program: every
\* program stays a byPassProgAnchored
compileWidthsAnchored(prog) == prog

\* the end of compileByPass for a walk that has not bailed out and is not
\* unmatchable: prog is the program after computeWidth
compileWidths(prog) ==
    IF prog.anchoredBegin \/ prog.anchoredEnd THEN prog
    ELSE [kind |-> "Unanchored", steps |-> prog.steps,
          length |-> prog.length, minWidth |-> prog.minWidth,
          maxWidth |-> prog.maxWidth]

\* compileByPass after traverseTree returned t
compileWalked(tree, t) ==
    IF t.bailout /\ tree.Op = "OpConcat" /\ Len(tree.Sub) > 1
    THEN compilePartial(compileByPassPartialPrefix(NewProgFirstPass, tree))
    ELSE IF t.bailout THEN [prog |-> notByPass, tree |-> tree]
    ELSE IF t.prog.unmatchable THEN [prog |-> ProgUnmatchable, tree |-> tree]
    ELSE [prog |-> compileWidths(computeWidth(t.prog)), tree |-> tree]

\* the linear branch of compileByPass (everything below the OpAlternate case)
compileLinear(tree) == compileWalked(tree, traverseTree(NewProgAnchored, tree))

RECURSIVE compileByPassTree(_)
RECURSIVE compileAlternate(_, _, _)

\* the OpAlternate loop that leaves out a branch without a program and
\* goes on with the next one
compileAlternateSkip(tree, k, progs, c) ==
    compileAlternate([tree EXCEPT !.Sub[k] = c.tree], k + 1,
                     IF c.prog = notByPass THEN progs
                     ELSE Append(progs, c.prog))

\* the OpAlternate loop of compileByPass after branch k compiled to c: a
\* branch without a program ends the compilation, else the sub-program is
\* appended; the branch is left as its compilation rewrote it
compileAlternateNext(tree, k, progs, c) ==
    IF c.prog = notByPass
    THEN [prog |-> notByPass, tree |-> [tree EXCEPT !.Sub[k] = c.tree]]
    ELSE compileAlternate([tree EXCEPT !.Sub[k] = c.tree], k + 1,
                          Append(progs, c.prog))

\* the OpAlternate loop of compileByPass over branches k..: progs holds the
\* sub-programs compiled so far
compileAlternate(tree, k, progs) ==
    IF k > Len(tree.Sub)
    THEN [prog |-> [kind |-> "Alternate", progs |-> progs], tree |-> tree]
    ELSE compileAlternateNext(tree, k, progs, compileByPassTree(tree.Sub[k]))

\* compileByPass with its effect on the tree: the program, and the tree as
\* the call leaves it
compileByPassTree(tree) ==
    IF tree.Op = "OpAlternate" THEN compileAlternate(tree, 1, <<>>)
    ELSE compileLinear(tree)

\* compileByPass: the byPassProg of a tree, notByPass if there is none
compileByPass(tree) == compileByPassTree(tree).prog

\* ------------------------------------------------------------------------
\* per-step matching
\* ------------------------------------------------------------------------

\* matchCharInClasses: the rune lies in one of the [lo, hi] pairs of classes
matchCharInClasses(char, step) ==
    \E i \in 1..(Len(step.classes) \div 2) :
        step.classes[2 * i - 1] <= char /\ char <= step.classes[2 * i]

\* findCharClass: <<offset, rune>> of the first rune of s in the class,
\* <<-1, 0>> if there is none
findCharClass(s, step) ==
    LET rs == RangeString(s, 0)
        hits == {k \in 1..Len(rs) : matchCharInClasses(rs[k][2], step)}
    IN  IF hits = {} THEN <<-1, 0>>
        ELSE LET k == CHOOSE x \in hits : \A y \in hits : x <= y
             IN  <<rs[k][1], rs[k][2]>>

\* findOtherChar that finds no rune
findOtherCharNone(s, char) == <<-1, 0>>

\* findOtherChar: <<offset, rune>> of the first rune of s that differs from
\* char, <<-1, 0>> if there is none
findOtherChar(s, char) ==
    LET rs == RangeString(s, 0)
        hits == {k \in 1..Len(rs) : rs[k][2] # char}
    IN  IF hits = {} THEN <<-1, 0>>
        ELSE LET k == CHOOSE x \in hits : \A y \in hits : x <= y
             IN  <<rs[k][1], rs[k][2]>>

\* matchStepAnchored whose literal case compares the lengths only
matchStepAnchoredLength(step, s) ==
    CASE step.op = "byPassOpLiteral" -> Len(s) = Len(step.literal)
      [] step.op = "byPassOpCharClass" -> findCharClass(s, step)[1] # -1
      [] step.op = "byPassOpNegativeCharClass" -> s # step.literal
      [] OTHER -> TRUE

\* matchStepAnchored: a slice as a whole against a step
matchStepAnchored(step, s) ==
    CASE step.op = "byPassOpLiteral" -> s = step.literal
      [] step.op = "byPassOpCharClass" -> findCharClass(s, step)[1] # -1
      [] step.op = "byPassOpNegativeCharClass" -> s # step.literal
      [] step.op = "byPassOpAnyChar" -> TRUE
      [] OTHER -> TRUE

\* ------------------------------------------------------------------------
\* the matchers, as step machines over the locals of one MatchString call
\* ------------------------------------------------------------------------

\* the locals of a call: pc is "loop" while the call runs, "done" once it
\* has returned matched and "panic" if a slice bound was out of range.
\* calls lists the sub-programs a call has invoked so far (0-based indexes
\* for an alternation, names for a first pass) and work is the local copy
\* of s that a first pass trims.
Frame(pc, stepn, cursor, begin, firstRuneWidth, matched) ==
    [pc |-> pc, stepn |-> stepn, cursor |-> cursor, begin |-> begin,
     firstRuneWidth |-> firstRuneWidth, matched |-> matched,
     calls |-> <<>>, work |-> <<>>]

\* a call that has returned matched, its locals as the frame f left them
Return(f, matched) == [f EXCEPT !.pc = "done", !.matched = matched]

\* byPassProgAnchored.MatchString that enters its loop without the two
\* width tests
AnchoredEnterLoop(prog, s) == Frame("loop", 0, 0, 0, 0, FALSE)

\* byPassProgAnchored.MatchString whose exact-width test is made for every
\* program anchored at the end, anchored at the beginning or not
AnchoredEnterEndExact(prog, s) ==
    IF Len(s) < prog.minWidth THEN Frame("done", 0, 0, 0, 0, FALSE)
    ELSE IF prog.anchoredEnd /\ prog.maxWidth # -1 /\ Len(s) > prog.maxWidth
    THEN Frame("done", 0, 0, 0, 0, FALSE)
    ELSE Frame("loop", 0, 0, 0, 0, FALSE)

\* byPassProgAnchored.MatchString up to its loop: the two width tests
AnchoredEnter(prog, s) ==
    IF Len(s) < prog.minWidth THEN Frame("done", 0, 0, 0, 0, FALSE)
    ELSE IF /\ prog.anchoredBegin
            /\ prog.anchoredEnd
            /\ prog.maxWidth # -1
            /\ Len(s) > prog.maxWidth
    THEN Frame("done", 0, 0, 0, 0, FALSE)
    ELSE Frame("loop", 0, 0, 0, 0, FALSE)

\* one iteration of the loop of byPassProgAnchored.MatchString over step
\* f.stepn, or the test after the loop once the steps are exhausted
AnchoredIter(prog, s, f) ==
    IF f.stepn >= Len(prog.steps)
    THEN Return(f, ~(prog.anchoredEnd /\ f.begin # Len(s)
                     /\ Len(prog.steps) > 0))
    ELSE LET step == prog.steps[f.stepn + 1]
             end == Len(s)
             fromBegin == step.anchorIndex >= 0
             anchorWidth == IF fromBegin
                            THEN nextRunesWidth(s, step.anchorIndex)
                            ELSE lastRunesWidth(s, -step.anchorIndex)
             begin == IF fromBegin THEN anchorWidth ELSE end - anchorWidth
             stepWidth == nextRunesWidth(From(s, begin), step.length)
         IN  IF f.begin >= end THEN Return(f, FALSE)
             ELSE IF fromBegin /\ anchorWidth < f.begin THEN Return(f, FALSE)
             ELSE IF ~fromBegin /\ anchorWidth = -1 THEN Return(f, FALSE)
             ELSE IF \/ ~SliceInRange(s, begin, Len(s))
                     \/ ~SliceInRange(s, begin, begin + stepWidth)
             THEN [f EXCEPT !.pc = "panic", !.begin = begin]
             ELSE IF ~matchStepAnchored(step,
                                        Slice(s, begin, begin + stepWidth))
             THEN Return([f EXCEPT !.begin = begin], FALSE)
             ELSE [f EXCEPT !.stepn = f.stepn + 1,
                            !.begin = begin + stepWidth]

\* byPassProgUnanchored.MatchString up to byPassUnanchoredRestart
UnanchoredEnter(prog, s) ==
    IF Len(s) < prog.minWidth THEN Frame("done", 0, 0, 0, 1, FALSE)
    ELSE Frame("loop", 0, 0, 0, 1, FALSE)

\* goto byPassUnanchoredRestart with the new cursor
Restart(f, cursor) ==
    [f EXCEPT !.stepn = 0, !.cursor = cursor, !.begin = cursor,
              !.firstRuneWidth = 1]

\* the byPassOpLiteral case of byPassProgUnanchored.MatchString
UnanchoredLiteral(step, s, f) ==
    LET idx == Index(From(s, f.begin), step.literal)
    IN  IF idx = -1 THEN Return(f, FALSE)
        ELSE IF idx = 0
        THEN [f EXCEPT !.stepn = f.stepn + 1,
                       !.begin = f.begin + step.minWidth,
                       !.firstRuneWidth = IF f.stepn = 0 THEN step.minWidth
                                          ELSE f.firstRuneWidth]
        ELSE IF f.stepn = 0
        THEN [f EXCEPT !.stepn = f.stepn + 1,
                       !.cursor = f.begin + idx,
                       !.begin = f.begin + idx + step.minWidth,
                       !.firstRuneWidth = step.minWidth]
        ELSE IF idx = 1 THEN Restart(f, f.cursor + 1)
        ELSE IF ~SliceInRange(s, f.cursor, f.begin + idx)
        THEN [f EXCEPT !.pc = "panic"]
        ELSE Restart(f, f.begin + idx
                        - lastRunesWidth(Slice(s, f.cursor, f.begin + idx),
                                         step.previousLength))

\* the byPassOpNegativeCharClass and byPassOpCharClass cases: ok tells
\* whether the rune at begin is accepted, found is the <<offset, rune>> of
\* the forward search made when the first step misses
UnanchoredClass(s, f, ok, nextWidth, found) ==
    LET frw == IF f.stepn = 0 THEN nextWidth ELSE f.firstRuneWidth
    IN  IF ok
        THEN [f EXCEPT !.stepn = f.stepn + 1, !.begin = f.begin + nextWidth,
                       !.firstRuneWidth = frw]
        ELSE IF f.stepn = 0
        THEN IF ~SliceInRange(s, f.begin + nextWidth, Len(s))
             THEN [f EXCEPT !.pc = "panic", !.firstRuneWidth = frw]
             ELSE IF found[1] = -1
             THEN Return([f EXCEPT !.firstRuneWidth = frw], FALSE)
             ELSE [f EXCEPT !.stepn = f.stepn + 1,
                            !.firstRuneWidth = RuneLen(found[2]),
                            !.cursor = f.begin + nextWidth + found[1],
                            !.begin = f.begin + nextWidth + found[1]
                                      + RuneLen(found[2])]
        ELSE Restart(f, f.cursor + f.firstRuneWidth)

\* one iteration of the loop of byPassProgUnanchored.MatchString over step
\* f.stepn, or the return after the loop once the steps are exhausted
UnanchoredIter(prog, s, f) ==
    IF f.stepn >= Len(prog.steps) THEN Return(f, TRUE)
    ELSE LET step == prog.steps[f.stepn + 1]
             d == DecodeRuneInString(From(s, f.begin))
             nextRune == d[1]
             nextWidth == d[2]
         IN  IF f.begin + step.minNextWidth > Len(s) THEN Return(f, FALSE)
             ELSE IF ~SliceInRange(s, f.begin, Len(s))
             THEN [f EXCEPT !.pc = "panic"]
             ELSE CASE step.op = "byPassOpLiteral" ->
                        UnanchoredLiteral(step, s, f)
                    [] step.op = "byPassOpNegativeCharClass" ->
                        UnanchoredClass(s, f, nextRune # step.char, nextWidth,
                            findOtherChar(From(s, f.begin + nextWidth),
                                          step.char))
                    [] step.op = "byPassOpCharClass" ->
                        UnanchoredClass(s, f,
                            matchCharInClasses(nextRune, step), nextWidth,
                            findCharClass(From(s, f.begin + nextWidth), step))
                    [] step.op = "byPassOpAnyChar" ->
                        [f EXCEPT !.stepn = f.stepn + 1,
                                  !.begin = f.begin + nextWidth,
                                  !.firstRuneWidth =
                                      IF f.stepn = 0 THEN nextWidth
                                      ELSE f.firstRuneWidth]
                    [] OTHER -> [f EXCEPT !.stepn = f.stepn + 1]

\* ------------------------------------------------------------------------
\* the general matcher: (*Regexp).MatchString of the regexp package, on the
\* runes the input decodes to
\* ------------------------------------------------------------------------

\* the runes of s, malformed bytes decoding as RuneError
Runes(s) == LET rs == RangeString(s, 0) IN [k \in 1..Len(rs) |-> rs[k][2]]

\* simple case folding of the ASCII letters
Fold(r) == IF InRange(r, 65, 90) THEN r + 32 ELSE r

\* a word character of \b: [0-9A-Za-z_]
IsWordChar(r) ==
    InRange(r, 48, 57) \/ InRange(r, 65, 90) \/ InRange(r, 97, 122) \/ r = 95

\* a word character stands at rune position i (0-based) of R
WordAt(R, i) == i >= 0 /\ i < Len(R) /\ IsWordChar(R[i + 1])

\* the pairs of a class hold the rune
InClass(rune, r) ==
    \E i \in 1..(Len(rune) \div 2) : rune[2 * i - 1] <= r /\ r <= rune[2 * i]

RECURSIVE MatchEnds(_, _, _)
RECURSIVE ConcatEnds(_, _, _, _)
RECURSIVE StarEnds(_, _, _)
RECURSIVE RepeatEnds(_, _, _, _, _)

\* the positions the subs k.. can end at when they start at one of from
ConcatEnds(subs, k, R, from) ==
    IF k > Len(subs) THEN from
    ELSE ConcatEnds(subs, k + 1, R,
                    UNION {MatchEnds(subs[k], R, i) : i \in from})

\* the closure step of StarEnds: more is reached and what one more match of
\* sub reaches
StarEndsNext(sub, R, reached, more) ==
    IF more = reached THEN reached ELSE StarEnds(sub, R, more)

\* the positions zero or more matches of sub can end at, starting in reached
StarEnds(sub, R, reached) ==
    StarEndsNext(sub, R, reached,
                 reached \cup UNION {MatchEnds(sub, R, i) : i \in reached})

\* the positions min..max matches of sub can end at (max = -1: no limit)
RepeatEnds(sub, R, from, min, max) ==
    IF min > 0
    THEN RepeatEnds(sub, R, UNION {MatchEnds(sub, R, i) : i \in from},
                    min - 1, IF max = -1 THEN -1 ELSE max - 1)
    ELSE IF max = -1 THEN StarEnds(sub, R, from)
    ELSE IF max <= 0 THEN from
    ELSE from \cup RepeatEnds(sub, R,
                       UNION {MatchEnds(sub, R, i) : i \in from}, 0, max - 1)

\* the rune positions j such that tree matches R from position i to j
MatchEnds(tree, R, i) ==
    LET n == Len(R)
        one(ok) == IF i < n /\ ok THEN {i + 1} ELSE {}
        empty(ok) == IF ok THEN {i} ELSE {}
    IN  CASE tree.Op = "OpNoMatch" -> {}
          [] tree.Op = "OpEmptyMatch" -> {i}
          [] tree.Op = "OpLiteral" ->
                LET m == Len(tree.Rune)
                    fold == (tree.Flags % 2) = FoldCase
                IN  IF /\ i + m <= n
                       /\ \A k \in 1..m :
                            IF fold THEN Fold(R[i + k]) = Fold(tree.Rune[k])
                            ELSE R[i + k] = tree.Rune[k]
                    THEN {i + m} ELSE {}
          [] tree.Op = "OpCharClass" ->
                one(i < n /\ InClass(tree.Rune, R[i + 1]))
          [] tree.Op = "OpAnyCharNotNL" -> one(i < n /\ R[i + 1] # 10)
          [] tree.Op = "OpAnyChar" -> one(TRUE)
          [] tree.Op = "OpBeginText" -> empty(i = 0)
          [] tree.Op = "OpEndText" -> empty(i = n)
          [] tree.Op = "OpBeginLine" -> empty(i = 0 \/ (i > 0 /\ R[i] = 10))
          [] tree.Op = "OpEndLine" -> empty(i = n \/ (i < n /\ R[i + 1] = 10))
          [] tree.Op = "OpWordBoundary" ->
                empty(WordAt(R, i - 1) # WordAt(R, i))
          [] tree.Op = "OpNoWordBoundary" ->
                empty(WordAt(R, i - 1) = WordAt(R, i))
          [] tree.Op = "OpCapture" -> MatchEnds(tree.Sub[1], R, i)
          [] tree.Op = "OpStar" -> StarEnds(tree.Sub[1], R, {i})
          [] tree.Op = "OpPlus" ->
                StarEnds(tree.Sub[1], R, MatchEnds(tree.Sub[1], R, i))
          [] tree.Op = "OpQuest" -> {i} \cup MatchEnds(tree.Sub[1], R, i)
          [] tree.Op = "OpRepeat" ->
                RepeatEnds(tree.Sub[1], R, {i}, tree.Min, tree.Max)
          [] tree.Op = "OpConcat" -> ConcatEnds(tree.Sub, 1, R, {i})
          [] tree.Op = "OpAlternate" ->
                UNION {MatchEnds(tree.Sub[k], R, i) : k \in 1..Len(tree.Sub)}
          [] OTHER -> {}

\* (*Regexp).MatchString: some substring of s matches the tree
GeneralMatch(tree, s) ==
    LET R == Runes(s) IN \E i \in 0..Len(R) : MatchEnds(tree, R, i) # {}

\* ------------------------------------------------------------------------
\* MatchString of every program class
\* ------------------------------------------------------------------------

\* the loop of byPassProgAnchored.MatchString run to its return
RECURSIVE AnchoredRun(_, _, _)
AnchoredRun(prog, s, f) ==
    IF f.pc # "loop" THEN f ELSE AnchoredRun(prog, s, AnchoredIter(prog, s, f))

\* the loop of byPassProgUnanchored.MatchString run to its return
RECURSIVE UnanchoredRun(_, _, _)
UnanchoredRun(prog, s, f) ==
    IF f.pc # "loop" THEN f
    ELSE UnanchoredRun(prog, s, UnanchoredIter(prog, s, f))

RECURSIVE MatchFrame(_, _)
RECURSIVE AlternateRun(_, _, _)
RECURSIVE FirstPassRun(_, _)

\* byPassProgAlternate.MatchString up to its loop
AlternateEnter(prog, s) == Frame("loop", 0, 0, 0, 0, FALSE)

\* the loop of byPassProgAlternate.MatchString that records a match and
\* goes on to the next sub-program instead of returning
AlternateCalledAll(f, sub) ==
    [f EXCEPT !.calls = Append(f.calls, f.stepn),
              !.stepn = f.stepn + 1,
              !.matched = f.matched \/ sub.matched]

\* the loop of byPassProgAlternate.MatchString after the call of
\* sub-program f.stepn ended with the frame sub
AlternateCalled(f, sub) ==
    IF sub.pc = "panic"
    THEN [f EXCEPT !.pc = "panic", !.calls = Append(f.calls, f.stepn)]
    ELSE IF sub.matched
    THEN Return([f EXCEPT !.calls = Append(f.calls, f.stepn)], TRUE)
    ELSE [f EXCEPT !.calls = Append(f.calls, f.stepn), !.stepn = f.stepn + 1]

\* one iteration of the loop of byPassProgAlternate.MatchString: the call
\* of sub-program f.stepn, or the return after the loop
AlternateIter(prog, s, f) ==
    IF f.stepn >= Len(prog.progs) THEN Return(f, FALSE)
    ELSE AlternateCalled(f, MatchFrame(prog.progs[f.stepn + 1], s))

AlternateRun(prog, s, f) ==
    IF f.pc # "loop" THEN f
    ELSE AlternateRun(prog, s, AlternateIter(prog, s, f))

\* byPassProgFirstPass.MatchString up to the prefix test
FirstPassEnter(prog, s) == [Frame("loop", 0, 0, 0, 0, FALSE) EXCEPT !.work = s]

\* byPassProgFirstPass.MatchString that runs the rest of the regexp even
\* after the prefix or the suffix has missed
FirstPassIterAlways(prog, f) ==
    LET s == f.work IN
    CASE f.stepn = 0 ->
            IF prog.prefixProg = Nil THEN [f EXCEPT !.stepn = 1]
            ELSE [f EXCEPT
                    !.calls = Append(f.calls, "prefix"),
                    !.stepn = 1,
                    !.work = From(s, nextRunesWidth(s, prog.prefixProg.length))]
      [] f.stepn = 1 ->
            IF prog.suffixProg = Nil THEN [f EXCEPT !.stepn = 2]
            ELSE LET w == lastRunesWidth(s, prog.suffixProg.length)
                 IN  [f EXCEPT
                        !.calls = Append(f.calls, "suffix"),
                        !.stepn = 2,
                        !.work = IF w = -1 THEN s
                                 ELSE Slice(s, 0, Len(s) - w)]
      [] OTHER ->
            Return([f EXCEPT !.calls = Append(f.calls, "regexp")],
                   GeneralMatch(prog.regexp.tree, s))

\* byPassProgFirstPass.MatchString, one stage per step: the prefix test
\* (stepn 0), the suffix test (stepn 1), the rest of the regexp (stepn 2)
FirstPassIter(prog, f) ==
    LET s == f.work IN
    CASE f.stepn = 0 ->
            IF prog.prefixProg = Nil THEN [f EXCEPT !.stepn = 1]
            ELSE LET g == [f EXCEPT !.calls = Append(f.calls, "prefix")]
                     sub == AnchoredRun(prog.prefixProg, s,
                                        AnchoredEnter(prog.prefixProg, s))
                     w == nextRunesWidth(s, prog.prefixProg.length)
                 IN  IF sub.pc = "panic" THEN [g EXCEPT !.pc = "panic"]
                     ELSE IF ~sub.matched THEN Return(g, FALSE)
                     ELSE IF ~SliceInRange(s, w, Len(s))
                     THEN [g EXCEPT !.pc = "panic"]
                     ELSE [g EXCEPT !.stepn = 1, !.work = From(s, w)]
      [] f.stepn = 1 ->
            IF prog.suffixProg = Nil THEN [f EXCEPT !.stepn = 2]
            ELSE LET g == [f EXCEPT !.calls = Append(f.calls, "suffix")]
                     sub == AnchoredRun(prog.suffixProg, s,
                                        AnchoredEnter(prog.suffixProg, s))
                     w == lastRunesWidth(s, prog.suffixProg.length)
                 IN  IF sub.pc = "panic" THEN [g EXCEPT !.pc = "panic"]
                     ELSE IF ~sub.matched THEN Return(g, FALSE)
                     ELSE IF ~SliceInRange(s, 0, Len(s) - w)
                     THEN [g EXCEPT !.pc = "panic"]
                     ELSE [g EXCEPT !.stepn = 2,
                                    !.work = Slice(s, 0, Len(s) - w)]
      [] OTHER ->
            Return([f EXCEPT !.calls = Append(f.calls, "regexp")],
                   GeneralMatch(prog.regexp.tree, s))

FirstPassRun(prog, f) ==
    IF f.pc # "loop" THEN f ELSE FirstPassRun(prog, FirstPassIter(prog, f))

\* byPassProgUnmatchable.MatchString
UnmatchableEnter(prog, s) == Frame("done", 0, 0, 0, 0, FALSE)

\* prog.MatchString(s) run to its return: the final frame of the call
MatchFrame(prog, s) ==
    CASE prog.kind = "Anchored" -> AnchoredRun(prog, s, AnchoredEnter(prog, s))
      [] prog.kind = "Unanchored" ->
            UnanchoredRun(prog, s, UnanchoredEnter(prog, s))
      [] prog.kind = "Alternate" ->
            AlternateRun(prog, s, AlternateEnter(prog, s))
      [] prog.kind = "FirstPass" -> FirstPassRun(prog, FirstPassEnter(prog, s))
      [] prog.kind = "Unmatchable" -> UnmatchableEnter(prog, s)

\* prog.MatchString(s): the value the call returns
MatchString(prog, s) == MatchFrame(prog, s).matched

\* ------------------------------------------------------------------------
\* the work of the anchored matcher: rune decodes and byte comparisons
\* ------------------------------------------------------------------------

\* the runes nextRunesWidth decodes when it scans the whole string instead
\* of stopping after n runes
nextRunesWidthDecodesAll(s, n, i, width) == Len(RangeString(s, 0))

\* the calls of utf8.DecodeRuneInString nextRunesWidth(s, n) makes: the
\* iterations of its loop, from iteration i with width bytes counted
RECURSIVE nextRunesWidthDecodes(_, _, _, _)
nextRunesWidthDecodes(s, n, i, width) ==
    IF i < n /\ width < Len(s)
    THEN nextRunesWidthDecodes(s, n, i + 1,
                               width + DecodeRuneInString(From(s, width))[2])
    ELSE i

\* the calls of utf8.DecodeLastRuneInString lastRunesWidth(s, n) makes
RECURSIVE lastRunesWidthDecodes(_, _, _, _)
lastRunesWidthDecodes(s, n, i, width) ==
    IF i < n /\ width < Len(s)
    THEN lastRunesWidthDecodes(s, n, i + 1,
             width + DecodeLastRuneInString(Slice(s, 0, Len(s) - width))[2])
    ELSE i

\* the bytes the comparison of two strings looks at: none when the lengths
\* differ, else up to the first difference
CompareBytes(s, t) ==
    IF Len(s) # Len(t) THEN 0
    ELSE IF s = t THEN Len(s)
    ELSE CHOOSE k \in 1..Len(s) :
            s[k] # t[k] /\ \A j \in 1..(k - 1) : s[j] = t[j]

\* the runes findCharClass decodes in s: up to the first one in the class
findCharClassDecodes(s, rs, step) ==
    IF \E k \in 1..Len(rs) : matchCharInClasses(rs[k][2], step)
    THEN CHOOSE k \in 1..Len(rs) :
            /\ matchCharInClasses(rs[k][2], step)
            /\ \A j \in 1..(k - 1) : ~matchCharInClasses(rs[j][2], step)
    ELSE Len(rs)

\* the work of matchStepAnchored(step, s): bytes compared and runes decoded
matchStepAnchoredWork(step, s) ==
    CASE step.op = "byPassOpLiteral" -> CompareBytes(s, step.literal)
      [] step.op = "byPassOpCharClass" ->
            findCharClassDecodes(s, RangeString(s, 0), step)
      [] step.op = "byPassOpNegativeCharClass" ->
            CompareBytes(s, step.literal)
      [] OTHER -> 0

\* the work of the iteration once the step is anchored at begin, where the
\* anchoring took anchorWork decodes
AnchoredSliceWork(step, s, begin, anchorWork) ==
    anchorWork
    + nextRunesWidthDecodes(From(s, begin), step.length, 0, 0)
    + matchStepAnchoredWork(step,
          Slice(s, begin,
                begin + nextRunesWidth(From(s, begin), step.length)))

\* the work of one iteration of the loop of byPassProgAnchored.MatchString
\* over step f.stepn: the decodes of the anchoring, those of the step's
\* width, and the work of matchStepAnchored
AnchoredWork(prog, s, f) ==
    IF f.stepn >= Len(prog.steps) \/ f.begin >= Len(s) THEN 0
    ELSE LET step == prog.steps[f.stepn + 1] IN
         IF step.anchorIndex >= 0
         THEN IF nextRunesWidth(s, step.anchorIndex) < f.begin
              THEN nextRunesWidthDecodes(s, step.anchorIndex, 0, 0)
              ELSE AnchoredSliceWork(step, s,
                       nextRunesWidth(s, step.anchorIndex),
                       nextRunesWidthDecodes(s, step.anchorIndex, 0, 0))
         ELSE IF lastRunesWidth(s, -step.anchorIndex) = -1
              THEN lastRunesWidthDecodes(s, -step.anchorIndex, 0, 0)
              ELSE AnchoredSliceWork(step, s,
                       Len(s) - lastRunesWidth(s, -step.anchorIndex),
                       lastRunesWidthDecodes(s, -step.anchorIndex, 0, 0))

\* the work of byPassProgAnchored.MatchString from the frame f to its return
RECURSIVE AnchoredRunWork(_, _, _)
AnchoredRunWork(prog, s, f) ==
    IF f.pc # "loop" THEN 0
    ELSE AnchoredWork(prog, s, f)
         + AnchoredRunWork(prog, s, AnchoredIter(prog, s, f))

\* ------------------------------------------------------------------------
\* the trees and the input strings the model draws from
\* ------------------------------------------------------------------------

\* longest well-formed input string, in bytes
MaxLen == 4
\* longest malformed input string, in bytes
MaxBad == 3
\* most children of a concatenation
MaxSub == 3
\* most runes of a literal of the anchored-literal patterns
MaxLit == 2
\* longest input string of the concurrent calls, in bytes
ConcLen == 2
\* most runes of an input string with three-byte runes
MaxRunes == 5
\* most children between the head and the tail of a concatenation
MaxKids == 3

\* the nodes syntax.Parse builds under the Perl flags: leaves carry the
\* parser's flags, `$` adds WasDollar, a concatenation or alternation built
\* by collapse has none
Leaf(op) == Node(op, Perl, <<>>, 0, 0, <<>>)
Literal(runes) == Node("OpLiteral", Perl, runes, 0, 0, <<>>)
CharClass(pairs) == Node("OpCharClass", Perl, pairs, 0, 0, <<>>)
Concat(subs) == Node("OpConcat", POSIX, <<>>, 0, 0, subs)
Alternate(subs) == Node("OpAlternate", POSIX, <<>>, 0, 0, subs)
Repeat(sub, min, max) == Node("OpRepeat", Perl, <<>>, min, max, <<sub>>)
Star(sub) == Node("OpStar", Perl, <<>>, 0, 0, <<sub>>)
Plus(sub) == Node("OpPlus", Perl, <<>>, 0, 0, <<sub>>)
Capture(sub) == Node("OpCapture", Perl, <<>>, 0, 0, <<sub>>)

\* `a`, `é`, `.`, `[^a]`, `[bé]`, `^`, `$`
LitA == Literal(<<97>>)
LitE == Literal(<<233>>)
Dot == Leaf("OpAnyCharNotNL")
NotA == CharClass(<<0, 96, 98, MaxRune>>)
ClassBE == CharClass(<<98, 98, 233, 233>>)
Begin == Leaf("OpBeginText")
End == Node("OpEndText", Perl + WasDollar, <<>>, 0, 0, <<>>)

\* the sequences of 1..n elements of S
SeqsUpTo(S, n) == UNION {[1..k -> S] : k \in 1..n}

\* a pattern made of the given children: the child itself if there is one
\* (collapse), else their concatenation
Pattern(subs) == IF Len(subs) = 1 THEN subs[1] ELSE Concat(subs)

\* the fixed-length atoms a linear pattern is made of
Atoms == {LitA, NotA, ClassBE, Begin, End}

\* the linear patterns of up to MaxSub atoms, anchors in any place
LinearTrees == {Pattern(subs) : subs \in SeqsUpTo(Atoms, MaxSub)}

\* the literals of up to MaxLit runes over `a` and `é`
Literals == {Literal(r) : r \in SeqsUpTo({97, 233}, MaxLit)}

\* `^lit$`, `^lit` and `lit$`
ExactTrees == {Concat(<<Begin, l, End>>) : l \in Literals}
PrefixTrees == {Concat(<<Begin, l>>) : l \in Literals}
SuffixTrees == {Concat(<<l, End>>) : l \in Literals}

\* the content of the anchored fixed-length patterns
Contents == SeqsUpTo({LitA, LitE, Dot, NotA, ClassBE}, MaxSub - 1)

\* the fixed-length patterns anchored at the beginning, at the end or both
AnchoredTrees ==
    ExactTrees \cup PrefixTrees \cup SuffixTrees
    \cup {Concat(<<Begin>> \o c) : c \in Contents}
    \cup {Concat(Append(c, End)) : c \in Contents}
    \cup {Concat(Append(<<Begin>> \o c, End)) : c \in Contents}

\* the patterns of TestByPassCompile and of the benchmarks, as syntax.Parse
\* builds them (`[a]` parses to the literal `a`)
CorpusA == LitA
CorpusNotA == NotA
CorpusDot == Dot
CorpusDotPlus == Plus(Dot)
CorpusADot == Concat(<<LitA, Dot>>)
CorpusBeginADot == Concat(<<Begin, LitA, Dot>>)
CorpusA2 == Repeat(LitA, 2, 2)
CorpusCapA == Capture(LitA)
CorpusXDotNotZYZEnd ==
    Concat(<<Literal(<<120>>), Dot, CharClass(<<0, 121, 123, MaxRune>>),
             Literal(<<121, 122>>), End>>)
CorpusBeginAADotEnd == Concat(<<Begin, LitA, LitA, Dot, End>>)
CorpusAADot == Concat(<<LitA, LitA, Dot>>)
CorpusBeginAADotStar == Concat(<<Begin, Literal(<<97, 97>>), Star(Dot)>>)
CorpusAEndAEnd == Concat(<<LitA, End, LitA, End>>)
CorpusPngJpg ==
    Alternate(<<Literal(<<112, 110, 103>>), Literal(<<106, 112, 103>>)>>)

Corpus ==
    {CorpusA, CorpusNotA, CorpusDot, CorpusDotPlus, CorpusADot,
     CorpusBeginADot, CorpusA2, CorpusCapA, CorpusXDotNotZYZEnd,
     CorpusBeginAADotEnd, CorpusAADot, CorpusBeginAADotStar, CorpusAEndAEnd,
     CorpusPngJpg}

\* linear patterns with the multi-byte literal `é`
MultiByteTrees ==
    {LitE, Concat(<<LitE, NotA>>), Concat(<<NotA, LitE>>),
     Concat(<<LitE, ClassBE>>), Concat(<<ClassBE, LitE>>),
     Concat(<<LitE, LitE, NotA>>), Concat(<<LitA, LitE, NotA>>),
     Concat(<<NotA, LitE, LitA>>), Concat(<<LitE, End>>),
     Concat(<<Begin, LitE>>), Concat(<<End, LitE>>)}

\* patterns outside the fixed-length sublanguage, and patterns around them
\* from which a prefix or a suffix can be peeled
OtherTrees ==
    {Star(Dot), Repeat(LitA, 1, 2), Leaf("OpNoMatch"), Leaf("OpAnyChar"),
     Leaf("OpEmptyMatch"),
     Node("OpLiteral", Perl + FoldCase, <<97>>, 0, 0, <<>>),
     Concat(<<Begin, LitA, Star(Dot), LitE, End>>),
     Concat(<<Star(Dot), LitA, NotA, End>>),
     Concat(<<Capture(LitA), Dot>>),
     Concat(<<LitA, Leaf("OpNoMatch")>>)}

\* the branches of the top-level alternations
Branches ==
    {LitA, LitE, Concat(<<LitA, End>>), Concat(<<Begin, LitE>>),
     Concat(<<NotA, LitA>>), Capture(LitA), CorpusAEndAEnd}

\* the top-level alternations of two branches
AlternateTrees == {Alternate(<<x, y>>) : x, y \in Branches}

Trees ==
    LinearTrees \cup MultiByteTrees \cup Corpus \cup OtherTrees
    \cup AlternateTrees

\* the bytes of the inputs: `a`, `b`, and the two bytes of `é`, which apart
\* or in the wrong order are malformed UTF-8
Bytes == {97, 98, 195, 169}

\* the bytes of the malformed inputs: `a` and the two bytes of `é`
BadBytes == {97, 195, 169}

\* the strings of up to n bytes of B
BytesUpTo(B, n) == UNION {[1..k -> B] : k \in 0..n}

\* s is well-formed UTF-8: no rune of it decodes as a malformed byte
WellFormed(s) ==
    LET rs == RangeString(s, 0)
    IN  \A k \in 1..Len(rs) : ~(rs[k][2] = RuneError /\ rs[k][3] = 1)

\* the input strings: the well-formed strings of up to MaxLen bytes and
\* every string of up to MaxBad of the bytes `a`, 0xC3 and 0xA9
Strings ==
    {s \in BytesUpTo(Bytes, MaxLen) : WellFormed(s)}
    \cup BytesUpTo(BadBytes, MaxBad)

\* ------------------------------------------------------------------------
\* the state machine: a tree is parsed and compiled once, then the callers
\* call MatchString on the compiled program
\* ------------------------------------------------------------------------

VARIABLES
    parsed, \* the syntax tree as syntax.Parse built it
    tree,   \* the syntax tree, as compileByPass has left it
    prog,   \* the byPassProg of the regexp, Nil before compileByPass
    calls   \* per caller, the MatchString call in progress: s and its frame

vars == <<parsed, tree, prog, calls>>

\* no call in progress
Idle == [s |-> <<>>, f |-> Frame("idle", 0, 0, 0, 0, FALSE)]

\* the regexp of tree t has been parsed and the callers cs exist
InitWith(ts, cs) ==
    /\ parsed \in ts
    /\ tree = parsed
    /\ prog = Nil
    /\ calls = [c \in cs |-> Idle]

\* compileByPass(tree)
Compile ==
    /\ prog = Nil
    /\ LET c == compileByPassTree(tree)
       IN  prog' = c.prog /\ tree' = c.tree
    /\ UNCHANGED <<parsed, calls>>

\* the frame MatchString starts with on program p
Enter(p, s) ==
    CASE p.kind = "Anchored" -> AnchoredEnter(p, s)
      [] p.kind = "Unanchored" -> UnanchoredEnter(p, s)
      [] p.kind = "Alternate" -> AlternateEnter(p, s)
      [] p.kind = "FirstPass" -> FirstPassEnter(p, s)
      [] p.kind = "Unmatchable" -> UnmatchableEnter(p, s)

\* caller c calls re.bypass.MatchString(s)
Call(c, s) ==
    /\ prog # Nil
    /\ prog # notByPass
    /\ calls[c].f.pc = "idle"
    /\ calls' = [calls EXCEPT ![c] = [s |-> s, f |-> Enter(prog, s)]]
    /\ UNCHANGED <<parsed, tree, prog>>

\* an iteration of byPassProgAnchored.MatchString that keeps begin, the
\* bytes matched so far, in the program's minWidth instead of a local
AnchoredStepShared(c) ==
    /\ prog.kind = "Anchored"
    /\ calls[c].f.pc = "loop"
    /\ calls' = [calls EXCEPT
                   ![c].f = AnchoredIter(prog, calls[c].s, calls[c].f)]
    /\ prog' = [prog EXCEPT
                   !.minWidth = AnchoredIter(prog, calls[c].s,
                                             calls[c].f).begin]
    /\ UNCHANGED <<parsed, tree>>

\* one iteration of byPassProgAnchored.MatchString in the call of c
AnchoredStep(c) ==
    /\ prog.kind = "Anchored"
    /\ calls[c].f.pc = "loop"
    /\ calls' = [calls EXCEPT
                   ![c].f = AnchoredIter(prog, calls[c].s, calls[c].f)]
    /\ UNCHANGED <<parsed, tree, prog>>

\* one iteration of byPassProgUnanchored.MatchString in the call of c
UnanchoredStep(c) ==
    /\ prog.kind = "Unanchored"
    /\ calls[c].f.pc = "loop"
    /\ calls' = [calls EXCEPT
                   ![c].f = UnanchoredIter(prog, calls[c].s, calls[c].f)]
    /\ UNCHANGED <<parsed, tree, prog>>

\* one iteration of byPassProgAlternate.MatchString in the call of c
AlternateStep(c) ==
    /\ prog.kind = "Alternate"
    /\ calls[c].f.pc = "loop"
    /\ calls' = [calls EXCEPT
                   ![c].f = AlternateIter(prog, calls[c].s, calls[c].f)]
    /\ UNCHANGED <<parsed, tree, prog>>

\* one stage of byPassProgFirstPass.MatchString in the call of c
FirstPassStep(c) ==
    /\ prog.kind = "FirstPass"
    /\ calls[c].f.pc = "loop"
    /\ calls' = [calls EXCEPT ![c].f = FirstPassIter(prog, calls[c].f)]
    /\ UNCHANGED <<parsed, tree, prog>>

\* every pattern, one caller
Init == InitWith(Trees, {1})

Next ==
    \/ Compile
    \/ \E s \in Strings : Call(1, s)
    \/ AnchoredStep(1)
    \/ UnanchoredStep(1)
    \/ AlternateStep(1)
    \/ FirstPassStep(1)

Spec == Init /\ [][Next]_vars

\* the anchored fixed-length patterns, one caller
InitAnchored == InitWith(AnchoredTrees, {1})

NextAnchored ==
    \/ Compile
    \/ \E s \in Strings : Call(1, s)
    \/ AnchoredStep(1)

SpecAnchored == InitAnchored /\ [][NextAnchored]_vars

\* the top-level alternations, one caller
InitAlternate == InitWith(AlternateTrees, {1})

NextAlternate ==
    \/ Compile
    \/ \E s \in Strings : Call(1, s)
    \/ AlternateStep(1)

SpecAlternate == InitAlternate /\ [][NextAlternate]_vars

\* patterns of the four classes whose MatchString runs no other matcher:
\* `^[bé]`, `a[^a]`, `a|^é` and `a$a$`
ConcTrees ==
    {Concat(<<Begin, ClassBE>>), Concat(<<LitA, NotA>>),
     Alternate(<<LitA, Concat(<<Begin, LitE>>)>>), CorpusAEndAEnd}

\* the input strings of the concurrent calls
ConcStrings == {s \in Strings : Len(s) <= ConcLen}

\* two callers call MatchString on the same program, their steps interleaved
InitConc == InitWith(ConcTrees, {1, 2})

NextConc ==
    \/ Compile
    \/ \E c \in {1, 2} : \E s \in ConcStrings : Call(c, s)
    \/ \E c \in {1, 2} : AnchoredStep(c)
    \/ \E c \in {1, 2} : UnanchoredStep(c)
    \/ \E c \in {1, 2} : AlternateStep(c)

SpecConc == InitConc /\ [][NextConc]_vars

\* the fixed-length patterns without an anchor: up to MaxSub of `a`, `[^a]`
\* and `[bé]`, the multi-byte patterns, `.`, `[\w\W]` and `a.`
UnanchoredTrees ==
    {Pattern(subs) : subs \in SeqsUpTo({LitA, NotA, ClassBE}, MaxSub)}
    \cup {t \in MultiByteTrees : ~hasOps(<<t>>, {"OpBeginText", "OpEndText"})}
    \cup {CorpusDot, Leaf("OpAnyChar"), CorpusADot}

NextUnanchored ==
    \/ Compile
    \/ \E s \in Strings : Call(1, s)
    \/ UnanchoredStep(1)

\* the unanchored fixed-length patterns, one caller
SpecUnanchored == InitWith(UnanchoredTrees, {1}) /\ [][NextUnanchored]_vars

\* one or two negated classes, `[^a]` or `[^b]`, followed by the literal `a`
\* or `ab`
WideTrees ==
    LET nots == {NotA, CharClass(<<0, 97, 99, MaxRune>>)}
        lits == {LitA, Literal(<<97, 98>>)}
    IN  {Concat(<<x, l>>) : x \in nots, l \in lits}
        \cup {Concat(<<x, y, l>>) : x \in nots, y \in nots, l \in lits}

\* the well-formed strings of up to MaxRunes of the runes `a`, `b` and the
\* three-byte `€`
WideStrings ==
    {RunesToString(r) :
        r \in {<<>>} \cup SeqsUpTo({97, 98, 8364}, MaxRunes)}

NextWide ==
    \/ Compile
    \/ \E s \in WideStrings : Call(1, s)
    \/ UnanchoredStep(1)

\* unanchored patterns on strings with three-byte runes, one caller
SpecWide == InitWith(WideTrees, {1}) /\ [][NextWide]_vars

\* most negated classes before the literal, and most pieces between the
\* ends of a string
MaxNot == 3
MaxPieces == 3

\* one to MaxNot negated classes `[^a]` followed by the literal `b`
OvershootTrees ==
    {Concat(nots \o <<Literal(<<98>>)>>) : nots \in SeqsUpTo({NotA}, MaxNot)}

\* the pieces ps one after the other
RECURSIVE Join(_)
Join(ps) == IF ps = <<>> THEN <<>> ELSE Head(ps) \o Join(Tail(ps))

\* strings with four-byte runes and malformed bytes: an optional `a`, up to
\* MaxPieces pieces, each of them `a`, `é`, the four-byte U+1F600 or the
\* lone continuation byte 0xA9 (malformed UTF-8), and an optional `b`
OvershootStrings ==
    LET pieces == {<<97>>, <<195, 169>>, <<240, 159, 152, 128>>, <<169>>}
    IN  {h \o Join(ps) \o e :
            h \in {<<>>, <<97>>},
            ps \in {<<>>} \cup SeqsUpTo(pieces, MaxPieces),
            e \in {<<>>, <<98>>}}

NextOvershoot ==
    \/ Compile
    \/ \E s \in OvershootStrings : Call(1, s)
    \/ UnanchoredStep(1)

\* unanchored patterns on strings with four-byte runes and malformed
\* bytes, one caller
SpecOvershoot == InitWith(OvershootTrees, {1}) /\ [][NextOvershoot]_vars

\* patterns a prefix or a suffix is peeled from: `^aa.*`, `^a.*é$`,
\* `.*a[^a]$`, `^é[^a].*`, `a*é$`, `^a^b.*`, `.*a$b$`, `^a[^\x00-\x{10FFFF}].*`
\* and `^a(?:b.*){2}`
FirstPassTrees ==
    {CorpusBeginAADotStar,
     Concat(<<Begin, LitA, Star(Dot), LitE, End>>),
     Concat(<<Star(Dot), LitA, NotA, End>>),
     Concat(<<Begin, LitE, NotA, Star(Dot)>>),
     Concat(<<Star(LitA), LitE, End>>),
     Concat(<<Begin, LitA, Begin, Literal(<<98>>), Star(Dot)>>),
     Concat(<<Star(Dot), LitA, End, Literal(<<98>>), End>>),
     Concat(<<Begin, LitA, Leaf("OpNoMatch"), Star(Dot)>>),
     Concat(<<Begin, LitA,
              Repeat(Concat(<<Literal(<<98>>), Star(Dot)>>), 2, 2)>>)}

NextFirstPass ==
    \/ Compile
    \/ \E s \in Strings : Call(1, s)
    \/ FirstPassStep(1)

\* the patterns with a peeled prefix or suffix, one caller
SpecFirstPass == InitWith(FirstPassTrees, {1}) /\ [][NextFirstPass]_vars

\* the patterns the compilation is checked on.  Concatenations with a head
\* `^`, `a` or `.*`, a tail `$`, `a` or `.*` and up to MaxKids children
\* between them; the nodes outside the fixed-length sublanguage, alone, in a
\* concatenation, in a repeat and in a top-level alternation; top-level
\* alternations of branches with and without a program
CompileTrees ==
    LET kids == {Begin, End, LitA, LitE, NotA, Star(Dot), Repeat(LitA, 2, 2),
                 Capture(Leaf("OpWordBoundary"))}
        heads == {Begin, LitA, Star(Dot)}
        tails == {End, LitA, Star(Dot)}
        others == {Capture(LitA), Star(LitA), Plus(LitA),
                   Node("OpQuest", Perl, <<>>, 0, 0, <<LitA>>),
                   Repeat(LitA, 1, 2), Leaf("OpBeginLine"), Leaf("OpEndLine"),
                   Leaf("OpWordBoundary"), Leaf("OpNoWordBoundary"),
                   Leaf("OpEmptyMatch"), Alternate(<<LitA, LitE>>)}
        branches == {LitA, Star(Dot), Plus(LitE),
                     Concat(<<Begin, LitA, Star(Dot)>>),
                     Concat(<<Star(Dot), LitA, End>>),
                     Concat(<<Begin, LitA, Star(Dot), LitE, End>>)}
    IN  {Concat(<<h>> \o b \o <<t>>) :
            h \in heads, b \in SeqsUpTo(kids, MaxKids), t \in tails}
        \cup (others \ {Alternate(<<LitA, LitE>>)})
        \cup {Concat(<<LitA, u>>) : u \in others}
        \cup {Concat(<<u, LitA>>) : u \in others}
        \cup {Concat(<<Begin, u, End>>) : u \in others}
        \cup {Repeat(u, 2, 2) : u \in others}
        \cup {Repeat(u, 0, 0) : u \in others}
        \cup {Concat(<<LitA, Repeat(Concat(<<LitE, u>>), 2, 2)>>) :
                u \in others}
        \cup {Alternate(<<LitA, u>>) : u \in others \ {Alternate(<<LitA, LitE>>)}}
        \cup {Alternate(<<x, y>>) : x \in branches, y \in branches}
        \cup {Concat(<<Begin, LitA,
                       Repeat(Concat(<<LitA, Star(Dot)>>), 2, 2), LitA, End>>)}

\* the input strings of the calls on these patterns: "", "a", "aa", "aba",
\* "aaaa", "é" and "aé", and the malformed "\xc3", "a\xc3" and "\xa9a"
CompileStrings ==
    {<<>>, <<97>>, <<97, 97>>, <<97, 98, 97>>, <<97, 97, 97, 97>>,
     <<195, 169>>, <<97, 195, 169>>, <<195>>, <<97, 195>>, <<169, 97>>}

NextCompile ==
    \/ Compile
    \/ \E s \in CompileStrings : Call(1, s)
    \/ AnchoredStep(1)
    \/ UnanchoredStep(1)
    \/ AlternateStep(1)
    \/ FirstPassStep(1)

\* the patterns the compilation is checked on, one caller
SpecCompile == InitWith(CompileTrees, {1}) /\ [][NextCompile]_vars

\* ------------------------------------------------------------------------
\* properties of the bypass programs
\* ------------------------------------------------------------------------

\* the callers whose MatchString call has returned
Returned == {c \in DOMAIN calls : calls[c].f.pc = "done"}

\* C1: universal equivalence.  For every pattern compileByPass gives a
\* program for and every input string, the program's MatchString returns
\* what the general matcher returns for the pattern on the string.  It is
\* stated on the well-formed UTF-8 strings, where the two matchers decode
\* the same runes.
C1_UniversalEquivalence ==
    \A c \in Returned :
        WellFormed(calls[c].s) =>
            calls[c].f.matched = GeneralMatch(parsed, calls[c].s)

\* C1: the unanchored program of `aa[^a]` has returned on "aaab", a
\* well-formed string the pattern matches at offset 1
C1_Witness ==
    /\ parsed = Concat(<<LitA, LitA, NotA>>)
    /\ prog.kind = "Unanchored"
    /\ 1 \in Returned
    /\ calls[1].s = <<97, 97, 97, 98>>
    /\ GeneralMatch(parsed, calls[1].s)

\* the linear walk of the whole pattern, as compileByPass makes it
Walk == traverseTree(NewProgAnchored, parsed)

\* C2: program-class classification.  The patterns of the test corpus
\* compile to their classes, and so does every pattern that is no
\* alternation: unanchored when the walk completes without a contradiction
\* and sets no anchor, anchored when it completes without a contradiction
\* and sets one, a first pass when it bails out on a concatenation a prefix
\* or a suffix is peeled from, and no program when it bails out otherwise.
C2_Classification ==
    prog # Nil =>
        LET w == Walk
        IN  /\ parsed \in {CorpusDotPlus, CorpusCapA} => prog = notByPass
            /\ parsed \in {CorpusA, CorpusNotA, CorpusDot, CorpusADot,
                           CorpusA2, CorpusAADot} => prog.kind = "Unanchored"
            /\ parsed \in {CorpusBeginADot, CorpusXDotNotZYZEnd,
                           CorpusBeginAADotEnd} => prog.kind = "Anchored"
            /\ parsed = CorpusBeginAADotStar =>
                  /\ prog.kind = "FirstPass"
                  /\ prog.prefixProg # Nil
                  /\ prog.suffixProg = Nil
            /\ parsed = CorpusAEndAEnd => prog.kind = "Unmatchable"
            /\ (parsed.Op # "OpAlternate" /\ ~w.bailout
                  /\ ~w.prog.unmatchable) =>
                  prog.kind = IF w.prog.anchoredBegin \/ w.prog.anchoredEnd
                              THEN "Anchored" ELSE "Unanchored"
            /\ (parsed.Op # "OpAlternate" /\ w.bailout) =>
                  \/ prog = notByPass
                  \/ /\ prog.kind = "FirstPass"
                     /\ parsed.Op = "OpConcat"
                     /\ prog.prefixProg # Nil \/ prog.suffixProg # Nil

\* C2: `^aa.*` has compiled to a first pass with the prefix `aa`
C2_Witness ==
    /\ parsed = CorpusBeginAADotStar
    /\ prog.kind = "FirstPass"
    /\ prog.prefixProg.steps[1].literal = <<97, 97>>

\* the literal of `^lit$`, `^lit` or `lit$`, as a byte string
LitOf(t) ==
    RunesToString(IF t.Sub[1].Op = "OpLiteral" THEN t.Sub[1].Rune
                  ELSE t.Sub[2].Rune)

\* strings.HasPrefix and strings.HasSuffix
HasPrefix(s, prefix) ==
    Len(s) >= Len(prefix) /\ Slice(s, 0, Len(prefix)) = prefix
HasSuffix(s, suffix) ==
    Len(s) >= Len(suffix) /\ From(s, Len(s) - Len(suffix)) = suffix

\* C3: exact-literal round trip.  The program of `^lit$` matches lit and
\* no other string: a returned call has matched exactly when its string is
\* lit, byte for byte.
C3_ExactRoundTrip ==
    \A c \in Returned :
        parsed \in ExactTrees =>
            /\ prog.kind = "Anchored"
            /\ calls[c].f.matched = (calls[c].s = LitOf(parsed))

\* C3: the program of a `^lit$` with a multi-byte rune has matched lit
C3_Witness ==
    /\ parsed \in ExactTrees
    /\ 233 \in {parsed.Sub[2].Rune[k] : k \in 1..Len(parsed.Sub[2].Rune)}
    /\ 1 \in Returned
    /\ calls[1].f.stepn = 1
    /\ calls[1].f.matched
    /\ calls[1].s = LitOf(parsed)

\* C4: anchored literals are prefix and suffix tests.  The program of
\* `^lit` matches s iff s starts with lit, the program of `lit$` matches s
\* iff s ends with lit.
C4_PrefixSuffix ==
    \A c \in Returned :
        /\ parsed \in PrefixTrees =>
              calls[c].f.matched = HasPrefix(calls[c].s, LitOf(parsed))
        /\ parsed \in SuffixTrees =>
              calls[c].f.matched = HasSuffix(calls[c].s, LitOf(parsed))

\* C4: the program of a `lit$` has matched a string that is longer than
\* lit and ends with it
C4_Witness ==
    /\ parsed \in SuffixTrees
    /\ 1 \in Returned
    /\ calls[1].f.matched
    /\ Len(calls[1].s) > Len(LitOf(parsed))
    /\ HasSuffix(calls[1].s, LitOf(parsed))

\* the patterns `^p` of a fixed-length p, with no end anchor
BeginTrees == PrefixTrees \cup {Concat(<<Begin>> \o c) : c \in Contents}

\* utf8.RuneCountInString, and the first n runes of a string of n runes or
\* more
RuneCount(s) == Len(RangeString(s, 0))
FirstRunes(s, n) ==
    IF n = 0 THEN <<>>
    ELSE LET last == RangeString(s, 0)[n] IN Slice(s, 0, last[1] + last[3])

\* C5: begin-anchored prefix semantics.  The program of `^p`, p of N runes,
\* matches s iff s starts with a string it matches: it returns on s what
\* it returns on the first N runes of s, and false when s has fewer than N
\* runes.
C5_BeginAnchoredPrefix ==
    \A c \in Returned :
        parsed \in BeginTrees =>
            /\ prog.kind = "Anchored"
            /\ prog.anchoredBegin /\ ~prog.anchoredEnd
            /\ calls[c].f.matched =
                  (/\ RuneCount(calls[c].s) >= prog.length
                   /\ MatchString(prog, FirstRunes(calls[c].s, prog.length)))
            /\ calls[c].f.matched =
                  (\E k \in 0..Len(calls[c].s) :
                      MatchString(prog, Slice(calls[c].s, 0, k)))

\* C5: the program of a `^p` of two steps has matched a string of more
\* runes than p, whose first rune is multi-byte
C5_Witness ==
    /\ parsed \in BeginTrees
    /\ 1 \in Returned
    /\ calls[1].f.matched
    /\ calls[1].f.stepn = 2
    /\ RuneCount(calls[1].s) > prog.length
    /\ DecodeRuneInString(calls[1].s) = <<233, 2>>

\* the children of a pattern, the pattern itself if it is no concatenation
SubsOf(t) == IF t.Op = "OpConcat" THEN t.Sub ELSE <<t>>

\* the nodes the walk turns into a content step
IsContent(t) ==
    t.Op \in {"OpLiteral", "OpCharClass", "OpAnyCharNotNL", "OpAnyChar"}

\* a pattern made of content nodes, anchors and OpNoMatch only, all with
\* flags the walk accepts: its walk completes
IsFlat(t) ==
    \A k \in 1..Len(SubsOf(t)) :
        /\ SubsOf(t)[k].Flags \in {Perl, POSIX, Perl + WasDollar}
        /\ \/ IsContent(SubsOf(t)[k])
           \/ SubsOf(t)[k].Op \in {"OpBeginText", "OpEndText", "OpNoMatch"}

\* a contradiction of a flat pattern: an OpBeginText after content, content
\* after an OpEndText, or an OpNoMatch
Contradiction(t) ==
    \/ \E k \in 1..Len(SubsOf(t)) : SubsOf(t)[k].Op = "OpNoMatch"
    \/ \E i, j \in 1..Len(SubsOf(t)) :
          /\ i < j
          /\ \/ IsContent(SubsOf(t)[i]) /\ SubsOf(t)[j].Op = "OpBeginText"
             \/ SubsOf(t)[i].Op = "OpEndText" /\ IsContent(SubsOf(t)[j])

\* C6: compile-time contradictions.  When the walk of the whole pattern
\* completes and meets a contradiction, compileByPass returns the
\* unmatchable program; MatchString on it returns false for every string,
\* and the general matcher finds no match of the pattern either.
C6_Contradiction ==
    (prog # Nil /\ IsFlat(parsed) /\ Contradiction(parsed)) =>
        /\ prog = ProgUnmatchable
        /\ LET w == Walk IN ~w.bailout /\ w.prog.unmatchable
        /\ \A c \in Returned :
              /\ ~calls[c].f.matched
              /\ ~GeneralMatch(parsed, calls[c].s)

\* C6: the unmatchable program of `$a`, a content step after the end
\* anchor, has returned on the string "a"
C6_Witness ==
    /\ parsed = Concat(<<End, LitA>>)
    /\ prog = ProgUnmatchable
    /\ 1 \in Returned
    /\ calls[1].s = <<97>>
    /\ ~calls[1].f.matched

\* the programs the branches of the alternation compile to on their own,
\* in declaration order
BranchProgs == [k \in 1..Len(parsed.Sub) |-> compileByPass(parsed.Sub[k])]

\* C7: a top-level alternation is all-or-nothing.  compileByPass returns an
\* alternate program holding the program of every branch in declaration
\* order iff every branch compiles to a program; if any branch compiles to
\* none, the result is none, whatever the other branches compiled to.
C7_AllOrNothing ==
    (prog # Nil /\ parsed.Op = "OpAlternate") =>
        IF \A k \in 1..Len(parsed.Sub) : BranchProgs[k] # notByPass
        THEN prog = [kind |-> "Alternate", progs |-> BranchProgs]
        ELSE prog = notByPass

\* C7: the alternation `a|(a)`, whose first branch compiles and whose
\* second does not, has compiled to no program
C7_Witness ==
    /\ parsed = Alternate(<<LitA, Capture(LitA)>>)
    /\ compileByPass(LitA).kind = "Unanchored"
    /\ prog = notByPass

\* the results of the sub-programs of the alternation on s, in order
SubMatches(s) == [k \in 1..Len(prog.progs) |-> MatchString(prog.progs[k], s)]

\* C8: the alternate program is a short-circuit OR.  The sub-programs are
\* called in declaration order, each at most once; a call returns true on
\* the first sub-program that matches, without calling the later ones, and
\* false only after every sub-program has been called and has failed.
C8_ShortCircuitOr ==
    \A c \in DOMAIN calls :
        (prog.kind = "Alternate" /\ calls[c].f.pc \in {"loop", "done"}) =>
            LET f == calls[c].f
                m == SubMatches(calls[c].s)
            IN  /\ f.calls = [k \in 1..Len(f.calls) |-> k - 1]
                /\ Len(f.calls) <= Len(prog.progs)
                /\ \A k \in 1..Len(f.calls) - 1 : ~m[k]
                /\ f.pc = "loop" => \A k \in 1..Len(f.calls) : ~m[k]
                /\ f.pc = "done" =>
                      /\ f.matched = (\E k \in 1..Len(m) : m[k])
                      /\ f.matched => m[Len(f.calls)]
                      /\ ~f.matched => Len(f.calls) = Len(prog.progs)

\* C8: a call has returned true on its first sub-program, the second one
\* not called although it matches too
C8_Witness ==
    /\ prog.kind = "Alternate"
    /\ 1 \in Returned
    /\ calls[1].f.matched
    /\ calls[1].f.calls = <<0>>
    /\ prog.progs[1] # prog.progs[2]
    /\ MatchString(prog.progs[2], calls[1].s)

\* the cursor of the unanchored matcher stays within the string
CursorBounded ==
    \A c \in DOMAIN calls :
        (prog.kind = "Unanchored" /\ calls[c].f.pc # "idle") =>
            /\ 0 <= calls[c].f.cursor
            /\ calls[c].f.cursor <= Len(calls[c].s)

\* the width helpers count at least one byte for every rune they count and
\* never more than the string holds: on the string of a call (tested while
\* the call is at its first step), the first or
\* last n runes take n..Len(s) bytes when s has n runes; when it has fewer,
\* nextRunesWidth stops at the end and lastRunesWidth returns -1
WidthsAdvance ==
    \A c \in DOMAIN calls :
        calls[c].f.stepn = 0 =>
            LET s == calls[c].s
                count == RuneCount(s)
            IN  \A n \in 0..(Len(s) + 1) :
                    LET next == nextRunesWidth(s, n)
                        last == lastRunesWidth(s, n)
                    IN  IF n <= count
                        THEN /\ n <= next /\ next <= Len(s)
                             /\ n <= last /\ last <= Len(s)
                        ELSE next = Len(s) /\ last = -1

\* a step of the unanchored matcher never moves the cursor back, and a
\* restart (a step from a later step back to step 0) moves it forward
RestartAdvances ==
    \A c \in DOMAIN calls :
        (/\ prog.kind = "Unanchored"
         /\ calls[c].f.pc = "loop"
         /\ calls'[c].f.pc = "loop") =>
            /\ calls'[c].f.cursor >= calls[c].f.cursor
            /\ (calls[c].f.stepn > 0 /\ calls'[c].f.stepn = 0) =>
                  calls'[c].f.cursor > calls[c].f.cursor

\* what is left of a running call: the steps still to run and, in the
\* unanchored matcher, a full pass over the steps for every byte between
\* cursor and the end of the string
Measure(c) ==
    LET f == calls[c].f
    IN  CASE prog.kind = "Unanchored" ->
                (Len(calls[c].s) - f.cursor) * (Len(prog.steps) + 1)
                + (Len(prog.steps) - f.stepn)
          [] prog.kind = "Anchored" -> Len(prog.steps) - f.stepn
          [] prog.kind = "Alternate" -> Len(prog.progs) - f.stepn
          [] prog.kind = "FirstPass" -> 2 - f.stepn
          [] OTHER -> 0

\* a running call has a next step (the program is of a class whose step
\* action takes a call in its loop), and what is left of it is no less
\* than 0
Running ==
    \A c \in DOMAIN calls :
        calls[c].f.pc = "loop" =>
            /\ Measure(c) >= 0
            /\ prog.kind \in {"Anchored", "Unanchored", "Alternate",
                              "FirstPass"}

\* a step of a running call returns or leaves strictly less to do
StepsDown ==
    \A c \in DOMAIN calls :
        (calls[c].f.pc = "loop" /\ calls'[c] # calls[c]) =>
            \/ calls'[c].f.pc = "done"
            \/ calls'[c].f.pc = "loop" /\ Measure(c)' < Measure(c)

\* C9: termination.  Every MatchString call, on every program and every
\* byte string, the empty string and malformed UTF-8 included, returns:
\* a running call always has a next step, and every step returns or
\* strictly decreases a natural number.  In the unanchored matcher every
\* restart strictly increases cursor, cursor never exceeds len(s), and the
\* rune-width helpers advance at least one byte for every rune they count.
\* The restart clause does not hold of SpecOvershoot: after the first step
\* has gone RuneLen(RuneError) = 3 bytes past a malformed byte, the restart
\* of bypass.go:691 can leave cursor where it was.
C9_Termination ==
    /\ [](CursorBounded /\ WidthsAdvance /\ Running)
    /\ [][RestartAdvances /\ StepsDown]_vars

\* C9: `[^a][^a][^a]b` on the bytes 61 A9 F0 9F 98 80 C3 A9 62.  The first
\* step has set cursor to 1 and begin to 4, three bytes after the lone
\* 0xA9; the literal is found two bytes after begin and the restart has
\* left cursor at 1: the matcher is at step 0 again with cursor = begin = 1
C9_Witness ==
    /\ prog.kind = "Unanchored"
    /\ Len(prog.steps) = 4
    /\ calls[1].s = <<97, 169, 240, 159, 152, 128, 195, 169, 98>>
    /\ calls[1].f.pc = "loop"
    /\ calls[1].f.stepn = 0
    /\ calls[1].f.cursor = 1
    /\ calls[1].f.begin = 1

\* C10: match-time immutability.  Once compiled, the program (its steps,
\* widths, anchors and sub-programs) is never written again, and under
\* every interleaving of two callers' MatchString calls on it, each call
\* returns what MatchString returns on the program as compiled, run alone.
C10_Immutable ==
    /\ [][prog # Nil => prog' = prog]_vars
    /\ [](prog # Nil => prog = compileByPass(parsed))
    /\ [](\A c \in Returned :
            calls[c].f.matched =
                MatchString(compileByPass(parsed), calls[c].s))

\* C10: caller 2 has returned while the call of caller 1 on the same
\* anchored program, on another string, is past its first step, and
\* caller 2 matched
C10_Witness ==
    /\ prog.kind = "Anchored"
    /\ calls[1].f.pc = "loop"
    /\ calls[1].f.stepn = 1
    /\ 2 \in Returned
    /\ calls[2].f.matched
    /\ calls[2].s # calls[1].s

\* the bytes a sequence of steps takes at least, and at most when every
\* step is a literal (-1 when some step has no known maximum)
RECURSIVE StepsMinWidth(_)
StepsMinWidth(steps) ==
    IF steps = <<>> THEN 0
    ELSE (IF Head(steps).op = "byPassOpLiteral" THEN Len(Head(steps).literal)
          ELSE Head(steps).length)
         + StepsMinWidth(Tail(steps))
StepsMaxWidth(steps) ==
    IF \E k \in 1..Len(steps) : steps[k].op # "byPassOpLiteral" THEN -1
    ELSE StepsMinWidth(steps)

\* C11: width invariants.  The minWidth of an anchored program is the least
\* number of bytes its steps take and its maxWidth the most, if known; a
\* call on a string of fewer than minWidth bytes returns false, and so does
\* a call on a string of more than maxWidth bytes when the program is
\* anchored at both ends and maxWidth is known.  Both are decided before the
\* first step is run.
C11_WidthInvariants ==
    \A c \in DOMAIN calls :
        (prog.kind = "Anchored" /\ calls[c].f.pc # "idle") =>
            LET s == calls[c].s
                f == calls[c].f
                short == Len(s) < prog.minWidth
                long == /\ prog.anchoredBegin /\ prog.anchoredEnd
                        /\ prog.maxWidth # -1 /\ Len(s) > prog.maxWidth
            IN  /\ prog.minWidth = StepsMinWidth(prog.steps)
                /\ prog.maxWidth = StepsMaxWidth(prog.steps)
                /\ (short \/ long) =>
                      f.pc = "done" /\ ~f.matched /\ f.stepn = 0 /\ f.begin = 0

\* C11: the program of a `^lit$` has returned false on a string that is
\* longer than its maxWidth and starts with lit
C11_Witness ==
    /\ parsed \in ExactTrees
    /\ prog.kind = "Anchored"
    /\ prog.maxWidth = Len(LitOf(parsed))
    /\ 1 \in Returned
    /\ Len(calls[1].s) > prog.maxWidth
    /\ HasPrefix(calls[1].s, LitOf(parsed))
    /\ ~calls[1].f.matched

\* the most work the steps can take: per step, the runes up to its anchor,
\* its own runes, and the bytes or runes matchStepAnchored looks at
RECURSIVE StepsWorkBound(_)
StepsWorkBound(steps) ==
    IF steps = <<>> THEN 0
    ELSE LET step == Head(steps)
             anchor == IF step.anchorIndex >= 0 THEN step.anchorIndex
                       ELSE -step.anchorIndex
         IN  anchor + step.length
             + (IF step.op = "byPassOpCharClass" THEN step.length
                ELSE IF step.op = "byPassOpAnyChar" THEN 0
                ELSE Len(step.literal))
             + StepsWorkBound(Tail(steps))

\* C12: near-constant work of the anchored matcher.  The rune decodes and
\* byte comparisons of a MatchString call on an anchored program of N runes
\* are bounded by a function of the program alone, whatever the length of
\* the string: by the sum over its steps of the runes up to the anchor, the
\* runes of the step and the bytes compared, which is at most 6 * N * N; and
\* the loop runs each step at most once.
C12_ConstantWork ==
    \A c \in DOMAIN calls :
        (prog.kind = "Anchored" /\ calls[c].f.pc # "idle") =>
            LET s == calls[c].s
                work == AnchoredRunWork(prog, s, AnchoredEnter(prog, s))
            IN  /\ work <= StepsWorkBound(prog.steps)
                /\ StepsWorkBound(prog.steps) <= 6 * prog.length * prog.length
                /\ calls[c].f.stepn <= Len(prog.steps)

\* C12: the program of a two-step pattern anchored at the end only has
\* matched a string of more runes than the pattern, after some work
C12_Witness ==
    /\ prog.kind = "Anchored"
    /\ ~prog.anchoredBegin
    /\ Len(prog.steps) = 2
    /\ 1 \in Returned
    /\ calls[1].f.matched
    /\ RuneCount(calls[1].s) > prog.length
    /\ AnchoredRunWork(prog, calls[1].s, AnchoredEnter(prog, calls[1].s)) > 0

\* the runes of s, as `range s` yields them
RunesIn(s) == {RangeString(s, 0)[k][2] : k \in 1..Len(RangeString(s, 0))}

\* C13: single-step unanchored programs scan until a match is found.  On a
\* well-formed string s, a program of one Literal step matches iff s holds
\* the literal as a substring, one of a negated rune c iff s holds a rune
\* other than c, one of a class iff s holds a rune of one of its ranges,
\* and one of an any-char step iff s is not empty.
C13_SingleStepScan ==
    \A c \in Returned :
        (/\ prog.kind = "Unanchored"
         /\ Len(prog.steps) = 1
         /\ WellFormed(calls[c].s)) =>
            LET step == prog.steps[1]
                s == calls[c].s
            IN  calls[c].f.matched =
                  CASE step.op = "byPassOpLiteral" ->
                          \E i \in 0..Len(s) :
                              HasPrefix(From(s, i), step.literal)
                    [] step.op = "byPassOpNegativeCharClass" ->
                          \E r \in RunesIn(s) : r # step.char
                    [] step.op = "byPassOpCharClass" ->
                          \E r \in RunesIn(s) : matchCharInClasses(r, step)
                    [] step.op = "byPassOpAnyChar" -> s # <<>>

\* C13: the program of `[^a]` has matched a string that starts with `a` and
\* holds another rune further on
C13_Witness ==
    /\ parsed = NotA
    /\ prog.kind = "Unanchored"
    /\ 1 \in Returned
    /\ calls[1].f.matched
    /\ calls[1].f.cursor > 0
    /\ calls[1].s[1] = 97
    /\ WellFormed(calls[1].s)

\* the call of c restarts in this step: a step other than the first has
\* failed and the program runs again from step 0
Restarts(c) ==
    /\ prog.kind = "Unanchored"
    /\ calls[c].f.pc = "loop"
    /\ calls[c].f.stepn > 0
    /\ calls'[c].f.pc = "loop"
    /\ calls'[c].f.stepn = 0

\* C14: backtrack by one rune.  Whenever a step other than the first fails
\* in the unanchored matcher, on a well-formed string, the program restarts
\* from step 0 with cursor moved forward by exactly one rune: to the byte
\* position of the rune that follows the one at the old cursor.
C14_BacktrackOneRune ==
    [][\A c \in DOMAIN calls :
          (Restarts(c) /\ WellFormed(calls[c].s)) =>
              /\ calls'[c].f.begin = calls'[c].f.cursor
              /\ calls'[c].f.cursor =
                    calls[c].f.cursor
                    + DecodeRuneInString(From(calls[c].s,
                                              calls[c].f.cursor))[2]]_vars

\* C14: the program of `aa[^a]` runs again from step 0 on "aaab", after its
\* class step failed on the third `a`: cursor is 2, two runes further
C14_Witness ==
    /\ parsed = Concat(<<LitA, LitA, NotA>>)
    /\ prog.kind = "Unanchored"
    /\ calls[1].s = <<97, 97, 97, 98>>
    /\ calls[1].f.pc = "loop"
    /\ calls[1].f.stepn = 0
    /\ calls[1].f.cursor = 2

\* the byte offsets of s at which a rune starts, and the end of s
RuneStarts(s) ==
    {RangeString(s, 0)[k][1] : k \in 1..Len(RangeString(s, 0))} \cup {Len(s)}

\* the steps match consecutive runes of s from the byte offset p on: a
\* literal is equal to the bytes at p, a class, a negation or an any-char
\* step is satisfied by the rune at p.  The byte offset after the last
\* step, -1 if some step fails.
RECURSIVE StepsEndAt(_, _, _)
StepsEndAt(steps, s, p) ==
    IF steps = <<>> THEN p
    ELSE LET step == Head(steps)
             d == DecodeRuneInString(From(s, p))
             ok == CASE step.op = "byPassOpLiteral" ->
                          HasPrefix(From(s, p), step.literal)
                     [] step.op = "byPassOpCharClass" ->
                          p < Len(s) /\ matchCharInClasses(d[1], step)
                     [] step.op = "byPassOpNegativeCharClass" ->
                          p < Len(s) /\ d[1] # step.char
                     [] OTHER -> p < Len(s)
             w == IF step.op = "byPassOpLiteral" THEN Len(step.literal)
                  ELSE d[2]
         IN  IF ok THEN StepsEndAt(Tail(steps), s, p + w) ELSE -1

\* the rune-aligned offsets from lo to hi at which a match of the steps
\* starts
MatchStarts(steps, s, lo, hi) ==
    {p \in RuneStarts(s) : lo <= p /\ p <= hi /\ StepsEndAt(steps, s, p) # -1}

\* C15: no match start is skipped by the unanchored matcher.  On a
\* well-formed string, when the matcher restarts with its cursor moved from
\* c to c', no rune-aligned offset strictly between c and c' starts a run
\* of runes that matches all the steps, and when it returns false no
\* rune-aligned offset from its cursor on starts one, nor does any offset of
\* the string.
C15_NoSkippedStart ==
    /\ [][\A c \in DOMAIN calls :
            (Restarts(c) /\ WellFormed(calls[c].s)) =>
                MatchStarts(prog.steps, calls[c].s, calls[c].f.cursor + 1,
                            calls'[c].f.cursor - 1) = {}]_vars
    /\ [](\A c \in Returned :
            (/\ prog.kind = "Unanchored"
             /\ WellFormed(calls[c].s)
             /\ ~calls[c].f.matched) =>
                /\ MatchStarts(prog.steps, calls[c].s, calls[c].f.cursor,
                               Len(calls[c].s)) = {}
                /\ MatchStarts(prog.steps, calls[c].s, 0,
                               Len(calls[c].s)) = {})

\* C15: the program of `aa[^a]` has returned false on "aaab" with its
\* cursor at 2, and the steps match from offset 1
C15_Witness ==
    /\ parsed = Concat(<<LitA, LitA, NotA>>)
    /\ prog.kind = "Unanchored"
    /\ 1 \in Returned
    /\ calls[1].s = <<97, 97, 97, 98>>
    /\ ~calls[1].f.matched
    /\ calls[1].f.cursor = 2
    /\ MatchStarts(prog.steps, calls[1].s, 0, 4) = {1}

\* C16: rune-boundary invariant of the unanchored matcher.  On a
\* well-formed string, at every restart, at every step and at the return,
\* cursor and begin are byte offsets at which a rune of the string starts
\* (or its end), never an offset inside a multi-byte rune; so a reported
\* match never starts inside a rune.
C16_RuneBoundary ==
    \A c \in DOMAIN calls :
        (/\ prog.kind = "Unanchored"
         /\ calls[c].f.pc \in {"loop", "done"}
         /\ WellFormed(calls[c].s)) =>
            /\ calls[c].f.cursor \in RuneStarts(calls[c].s)
            /\ calls[c].f.begin \in RuneStarts(calls[c].s)

\* C16: the program of `[^a][^b]ab` has returned true on "€abab" with its
\* cursor at offset 1, inside the three-byte `€`, and no rune-aligned
\* offset of the string starts a match of the steps
C16_Witness ==
    /\ parsed = Concat(<<NotA, CharClass(<<0, 97, 99, MaxRune>>),
                         Literal(<<97, 98>>)>>)
    /\ prog.kind = "Unanchored"
    /\ 1 \in Returned
    /\ calls[1].s = <<226, 130, 172, 97, 98, 97, 98>>
    /\ WellFormed(calls[1].s)
    /\ calls[1].f.matched
    /\ calls[1].f.cursor = 1
    /\ MatchStarts(prog.steps, calls[1].s, 0, Len(calls[1].s)) = {}

\* C17: the anchored matcher is exact.  For a pattern whose walk neither
\* bails out nor meets a contradiction and that sets an anchor, and a
\* well-formed string s, MatchString returns true iff the steps match
\* consecutive runes of s that start at offset 0 when the program is
\* anchored at the beginning, and end at the end of s when it is anchored at
\* the end: each literal equal to its slice, each class, negation or
\* any-char step satisfied by its rune.
C17_AnchoredExact ==
    \A c \in Returned :
        (prog.kind = "Anchored" /\ WellFormed(calls[c].s)) =>
            LET s == calls[c].s
                w == Walk
            IN  /\ ~w.bailout /\ ~w.prog.unmatchable
                /\ prog.anchoredBegin \/ prog.anchoredEnd
                /\ calls[c].f.matched =
                      IF prog.anchoredBegin
                      THEN /\ StepsEndAt(prog.steps, s, 0) # -1
                           /\ prog.anchoredEnd =>
                                 StepsEndAt(prog.steps, s, 0) = Len(s)
                      ELSE \E p \in RuneStarts(s) :
                              StepsEndAt(prog.steps, s, p) = Len(s)

\* C17: the program of a two-step pattern anchored at the end only has
\* matched a string that starts with a multi-byte rune the steps do not
\* cover
C17_Witness ==
    /\ prog.kind = "Anchored"
    /\ ~prog.anchoredBegin
    /\ Len(prog.steps) = 2
    /\ 1 \in Returned
    /\ WellFormed(calls[1].s)
    /\ calls[1].f.matched
    /\ DecodeRuneInString(calls[1].s) = <<233, 2>>
    /\ StepsEndAt(prog.steps, calls[1].s, 2) = Len(calls[1].s)

\* s without its first n runes, and s without its last n runes (s holds n
\* runes or more)
DropFirstRunes(s, n) ==
    IF n >= RuneCount(s) THEN <<>>
    ELSE From(s, RangeString(s, 0)[n + 1][1])
DropLastRunes(s, n) ==
    IF n = 0 THEN s
    ELSE Slice(s, 0, RangeString(s, 0)[RuneCount(s) - n + 1][1])

\* the stages of a first pass in the order MatchString runs them
FirstPassOrder ==
    (IF prog.prefixProg # Nil THEN <<"prefix">> ELSE <<>>)
    \o (IF prog.suffixProg # Nil THEN <<"suffix">> ELSE <<>>)
    \o <<"regexp">>

\* C18: first-pass ordering.  MatchString of a first pass runs the prefix
\* program, if any, on the full input and returns false on a miss, then
\* strips the first prefix.length runes; runs the suffix program, if any, on
\* the trimmed string and returns false on a miss, then strips the last
\* suffix.length runes; only then it runs the rest of the regexp on the
\* middle, and that result is the answer.  The rest is never run after a
\* miss, and an input of fewer runes than prefix and suffix together is
\* rejected.
C18_FirstPassOrder ==
    \A c \in DOMAIN calls :
        (prog.kind = "FirstPass" /\ calls[c].f.pc \in {"loop", "done"}) =>
            LET s == calls[c].s
                f == calls[c].f
                pre == prog.prefixProg
                suf == prog.suffixProg
                s1 == IF pre = Nil THEN s ELSE DropFirstRunes(s, pre.length)
                preOK == pre = Nil \/ MatchString(pre, s)
                sufOK == suf = Nil \/ MatchString(suf, s1)
                called(x) == \E k \in 1..Len(f.calls) : f.calls[k] = x
            IN  /\ f.calls = SubSeq(FirstPassOrder, 1, Len(f.calls))
                /\ called("suffix") => preOK
                /\ called("regexp") =>
                      /\ preOK /\ sufOK /\ f.pc = "done"
                      /\ f.work = IF suf = Nil THEN s1
                                  ELSE DropLastRunes(s1, suf.length)
                      /\ f.matched = GeneralMatch(prog.regexp.tree, f.work)
                /\ (f.pc = "done" /\ ~called("regexp")) =>
                      /\ ~f.matched
                      /\ ~(preOK /\ sufOK)
                      /\ ~preOK => ~called("suffix")
                /\ (/\ pre # Nil /\ suf # Nil /\ f.pc = "done"
                    /\ RuneCount(s) < pre.length + suf.length) =>
                      ~f.matched /\ ~called("regexp")

\* C18: the first pass of `^a.*é$` has returned true on a string whose
\* middle, between the prefix `a` and the suffix `é`, is not empty
C18_Witness ==
    /\ prog.kind = "FirstPass"
    /\ prog.prefixProg # Nil
    /\ prog.suffixProg # Nil
    /\ 1 \in Returned
    /\ calls[1].f.matched
    /\ calls[1].f.calls = <<"prefix", "suffix", "regexp">>
    /\ Len(calls[1].f.work) > 0
    /\ Len(calls[1].f.work) = Len(calls[1].s) - 3

\* the walk of the children peeled into the prefix or the suffix program of
\* the first pass has met a contradiction
PeeledContradiction ==
    /\ prog.kind = "FirstPass"
    /\ \/ prog.prefixProg # Nil /\ prog.prefixProg.unmatchable
       \/ prog.suffixProg # Nil /\ prog.suffixProg.unmatchable

\* C19: contradictions inside a peeled prefix or suffix are honoured.  When
\* the walk of the children peeled into the prefix or the suffix program
\* marks the program unmatchable (an OpBeginText after content, content
\* after an OpEndText, or an OpNoMatch), the first pass returns false for
\* every input.
C19_PeeledContradiction ==
    \A c \in Returned : PeeledContradiction => ~calls[c].f.matched

\* C19: the first pass of `^a^b.*`, whose prefix walk met the second `^`
\* after `a`, has returned true on "ab", which the pattern does not match
C19_Witness ==
    /\ parsed = Concat(<<Begin, LitA, Begin, Literal(<<98>>), Star(Dot)>>)
    /\ PeeledContradiction
    /\ prog.prefixProg.steps[1].literal = <<97, 98>>
    /\ 1 \in Returned
    /\ calls[1].s = <<97, 98>>
    /\ calls[1].f.matched
    /\ ~GeneralMatch(parsed, calls[1].s)

\* the 0-based index of the child the prefix loop stopped at
PrefixStop == prefixLoop(NewProgAnchored, parsed.Sub, 1, 0).i

\* the program the walk of the children 0..i-1 alone builds, with its widths
PrefixAccepted ==
    computeWidth(traverseSubs(NewProgAnchored,
                              SubSeq(parsed.Sub, 1, PrefixStop), 1).prog)

\* C20: the peeled prefix is exactly the accepted children.  The prefix
\* program of a first pass is the program of the children 0..i-1, i the
\* first child whose walk bails out: the partial walk of child i leaves the
\* steps, their lengths and the anchors unchanged, prefix.length is the
\* total rune length of the children 1..i-1, and the rest of the regexp
\* keeps child i whole.
C20_PrefixExact ==
    (prog.kind = "FirstPass" /\ prog.prefixProg # Nil) =>
        /\ prog.prefixProg = PrefixAccepted
        /\ prog.prefixProg.length = PrefixAccepted.length
        /\ tree.Sub = <<parsed.Sub[1]>>
                      \o SubSeq(parsed.Sub, PrefixStop + 1, Len(parsed.Sub))

\* C20: the first pass of `^a(?:b.*){2}` has the prefix literal `ab` of two
\* runes, and has returned false on "abb", which the pattern matches
C20_Witness ==
    /\ parsed = Concat(<<Begin, LitA,
                         Repeat(Concat(<<Literal(<<98>>), Star(Dot)>>), 2, 2)>>)
    /\ prog.kind = "FirstPass"
    /\ PrefixStop = 2
    /\ PrefixAccepted.steps[1].literal = <<97>>
    /\ prog.prefixProg.steps[1].literal = <<97, 98>>
    /\ prog.prefixProg.length = 2
    /\ 1 \in Returned
    /\ calls[1].s = <<97, 98, 98>>
    /\ ~calls[1].f.matched
    /\ GeneralMatch(parsed, calls[1].s)

\* the walk of traverseTree bails out on t: unsupported flags, a repeat whose
\* bounds differ, a node that is none of the fixed-length kinds, or a child
\* the walk reaches that bails out
RECURSIVE Bails(_)
Bails(t) ==
    \/ t.Flags \notin {Perl, POSIX, Perl + WasDollar}
    \/ t.Op \notin {"OpConcat", "OpRepeat", "OpLiteral", "OpBeginText",
                    "OpEndText", "OpAnyCharNotNL", "OpAnyChar", "OpNoMatch",
                    "OpCharClass"}
    \/ t.Op = "OpRepeat" /\ (t.Min # t.Max \/ (t.Min > 0 /\ Bails(t.Sub[1])))
    \/ t.Op = "OpConcat" /\ \E k \in 1..Len(t.Sub) : Bails(t.Sub[k])

\* the 0-based index of the first and of the last child of subs whose walk
\* bails out (Len(subs) and 0 if there is none)
FirstBail(subs) ==
    IF \E k \in 1..Len(subs) : Bails(subs[k])
    THEN (CHOOSE k \in 1..Len(subs) :
            Bails(subs[k]) /\ \A j \in 1..(k - 1) : ~Bails(subs[j])) - 1
    ELSE Len(subs)
LastBail(subs) ==
    IF \E k \in 1..Len(subs) : Bails(subs[k])
    THEN (CHOOSE k \in 1..Len(subs) :
            Bails(subs[k]) /\ \A j \in (k + 1)..Len(subs) : ~Bails(subs[j])) - 1
    ELSE 0

\* both a prefix and a suffix program are stored in the first pass
BothPeeled ==
    prog.kind = "FirstPass" /\ prog.prefixProg # Nil /\ prog.suffixProg # Nil

\* the children the prefix extraction leaves: `^` and the children from the
\* first bailing one on
PrefixRest ==
    <<parsed.Sub[1]>>
    \o SubSeq(parsed.Sub, FirstBail(parsed.Sub) + 1, Len(parsed.Sub))

\* the children the suffix extraction leaves of those: the head up to the
\* last bailing child, and `$`
SuffixRest ==
    Append(SubSeq(PrefixRest, 1, LastBail(PrefixRest) + 1),
           PrefixRest[Len(PrefixRest)])

\* C21: suffix overrides prefix.  When both the prefix extraction and the
\* suffix extraction succeed on a concatenation, the regexp stored in the
\* first pass is the one the suffix extraction compiled, from the tree it
\* left, and not the one the prefix extraction compiled before it.
C21_SuffixOverrides ==
    BothPeeled =>
        /\ prog.regexp.kind = "Regexp"
        /\ prog.regexp.tree.Sub = SuffixRest
        /\ prog.regexp.tree.Sub # PrefixRest
        /\ prog.regexp.tree = tree

\* C21: `^a.*é$` is compiled to a first pass with the prefix `a`, the suffix
\* `é` and the regexp of `^.*$`, where the prefix extraction left `^.*é$`
C21_Witness ==
    /\ parsed = Concat(<<Begin, LitA, Star(Dot), LitE, End>>)
    /\ BothPeeled
    /\ PrefixRest = <<Begin, Star(Dot), LitE, End>>
    /\ prog.regexp.tree.Sub = <<Begin, Star(Dot), End>>

\* the program the walk of the children after the last bailing one alone
\* builds, with its widths
SuffixAccepted ==
    computeWidth(traverseSubs(NewProgAnchored,
                              SubSeq(parsed.Sub, LastBail(parsed.Sub) + 2,
                                     Len(parsed.Sub)), 1).prog)

\* C22: the remainder is the middle.  When both a prefix and a suffix are
\* extracted, the regexp finally stored is compiled from `^`, the children
\* strictly between the peeled prefix children and the peeled suffix
\* children, and `$`; the prefix program holds the steps of the children
\* before the first bailing one and nothing else, the suffix program those
\* of the children after the last bailing one and nothing else, so that no
\* child whose steps went into either program is left in the remainder.
C22_RemainderMiddle ==
    BothPeeled =>
        /\ parsed.Sub[1].Op = "OpBeginText"
        /\ parsed.Sub[Len(parsed.Sub)].Op = "OpEndText"
        /\ prog.regexp.tree.Sub =
              <<parsed.Sub[1]>>
              \o SubSeq(parsed.Sub, FirstBail(parsed.Sub) + 1,
                        LastBail(parsed.Sub) + 1)
              \o <<parsed.Sub[Len(parsed.Sub)]>>
        /\ prog.prefixProg = PrefixAccepted
        /\ prog.suffixProg = SuffixAccepted

\* C22: the first pass of `^a(?:a.*){2}a$` has the prefix literal `aa`, whose
\* second rune is the `a` of the repeat left in the remainder `^(?:a.*){2}$`,
\* and has returned false on "aaaa", which the pattern matches
C22_Witness ==
    /\ parsed = Concat(<<Begin, LitA,
                         Repeat(Concat(<<LitA, Star(Dot)>>), 2, 2), LitA, End>>)
    /\ BothPeeled
    /\ prog.prefixProg.steps[1].literal = <<97, 97>>
    /\ PrefixAccepted.steps[1].literal = <<97>>
    /\ prog.regexp.tree.Sub =
          <<Begin, Repeat(Concat(<<LitA, Star(Dot)>>), 2, 2), End>>
    /\ 1 \in Returned
    /\ calls[1].s = <<97, 97, 97, 97>>
    /\ ~calls[1].f.matched
    /\ GeneralMatch(parsed, calls[1].s)

\* the operations of the nodes of t, at any depth
RECURSIVE OpsIn(_)
OpsIn(t) == {t.Op} \cup UNION {OpsIn(t.Sub[k]) : k \in 1..Len(t.Sub)}

\* the operations of the nodes of the children lo..hi (1-based) of subs
OpsOf(subs, lo, hi) == UNION {OpsIn(subs[k]) : k \in lo..hi}

\* a prefix, a suffix program is stored in the first pass
PrefixStored == prog.kind = "FirstPass" /\ prog.prefixProg # Nil
SuffixStored == prog.kind = "FirstPass" /\ prog.suffixProg # Nil

\* the children the suffix extraction is run on: those the prefix extraction
\* left if it stored a prefix, else those of the pattern
SuffixInput == IF PrefixStored THEN PrefixRest ELSE parsed.Sub

\* C23: extraction preconditions.  A prefix program is stored only if the
\* first child is OpBeginText, the children 0..i-1 the walk accepted produced
\* at least one content step, i > 1, and no node at any depth of the
\* children i.. is OpBeginText, OpBeginLine, OpWordBoundary or
\* OpNoWordBoundary.  A suffix program is stored only if the last child is
\* OpEndText, the suffix build holds at least one content step, at least one
\* child follows lastInvalid, and no node at any depth of the children
\* 0..lastInvalid is OpEndText, OpEndLine, OpWordBoundary or
\* OpNoWordBoundary.  If neither is stored, compileByPass returns notByPass
\* for a concatenation whose walk bails out.
C23_ExtractionPreconditions ==
    (parsed.Op = "OpConcat" /\ prog # Nil) =>
        /\ PrefixStored =>
              /\ parsed.Sub[1].Op = "OpBeginText"
              /\ Len(PrefixAccepted.steps) > 0
              /\ Len(prog.prefixProg.steps) > 0
              /\ FirstBail(parsed.Sub) > 1
              /\ PrefixStop = FirstBail(parsed.Sub)
              /\ OpsOf(parsed.Sub, FirstBail(parsed.Sub) + 1, Len(parsed.Sub))
                    \cap {"OpBeginText", "OpBeginLine", "OpWordBoundary",
                          "OpNoWordBoundary"} = {}
        /\ SuffixStored =>
              /\ SuffixInput[Len(SuffixInput)].Op = "OpEndText"
              /\ Len(prog.suffixProg.steps) > 0
              /\ LastBail(SuffixInput) < Len(SuffixInput) - 1
              /\ OpsOf(SuffixInput, 1, LastBail(SuffixInput) + 1)
                    \cap {"OpEndText", "OpEndLine", "OpWordBoundary",
                          "OpNoWordBoundary"} = {}
        /\ prog.kind = "FirstPass" => PrefixStored \/ SuffixStored
        /\ (Bails(parsed) /\ prog.kind # "FirstPass") => prog = notByPass

\* C23: `^a[^a].*a` is compiled to a first pass with the prefix of `a[^a]`
\* and no suffix, its last child not being `$`; `.*`, the first child to
\* bail out, is child 3
C23_Witness ==
    /\ parsed = Concat(<<Begin, LitA, NotA, Star(Dot), LitA>>)
    /\ PrefixStored
    /\ ~SuffixStored
    /\ FirstBail(parsed.Sub) = 3
    /\ Len(prog.prefixProg.steps) = 2
    /\ tree.Sub = <<Begin, Star(Dot), LitA>>

\* C24: notByPass leaves the tree untouched.  Whenever compileByPass returns
\* notByPass, every child list of the tree is what it was before the call;
\* child lists are spliced only in a concatenation for which a first pass is
\* the returned program, also in a top-level alternation in which an earlier
\* branch compiled to a first pass and a later one to notByPass.
C24_NoneUntouched ==
    /\ prog = notByPass => tree = parsed
    /\ tree # parsed =>
          \/ prog.kind = "FirstPass"
          \/ /\ prog.kind = "Alternate"
             /\ \A k \in 1..Len(parsed.Sub) :
                   tree.Sub[k] # parsed.Sub[k] =>
                       prog.progs[k].kind = "FirstPass"

\* C24: compileByPass has returned notByPass for `^a.*|é+` and has left the
\* tree of `^.*|é+`
C24_Witness ==
    /\ parsed = Alternate(<<Concat(<<Begin, LitA, Star(Dot)>>), Plus(LitE)>>)
    /\ prog = notByPass
    /\ tree = Alternate(<<Concat(<<Begin, Star(Dot)>>), Plus(LitE)>>)

\* C25: no out-of-range access.  For every compiled program and every byte
\* string, empty, shorter than the pattern or malformed UTF-8, no MatchString
\* call takes a slice of s outside [0, len(s)]: no call panics; where the
\* unanchored matcher takes s[begin:] or s[cursor:..], cursor <= begin <=
\* len(s); and a first pass whose suffix program has matched never strips
\* with the -1 of lastRunesWidth.
C25_NoOutOfRange ==
    \A c \in DOMAIN calls :
        LET s == calls[c].s
            f == calls[c].f
        IN  /\ f.pc # "panic"
            /\ (/\ prog.kind = "Unanchored"
                /\ f.pc = "loop"
                /\ f.stepn < Len(prog.steps)
                /\ f.begin + prog.steps[f.stepn + 1].minNextWidth <= Len(s)) =>
                  /\ 0 <= f.cursor
                  /\ f.cursor <= f.begin
                  /\ f.begin <= Len(s)
            /\ (prog.kind = "Anchored" /\ f.pc = "loop") =>
                  0 <= f.begin /\ f.begin <= Len(s)
            /\ (/\ prog.kind = "FirstPass"
                /\ f.pc = "loop"
                /\ f.stepn = 1
                /\ prog.suffixProg # Nil
                /\ MatchString(prog.suffixProg, f.work)) =>
                  /\ lastRunesWidth(f.work, prog.suffixProg.length) >= 0
                  /\ lastRunesWidth(f.work, prog.suffixProg.length)
                        <= Len(f.work)

\* C25: the first pass of `.*a[^a]$` has returned on the malformed "a\xc3",
\* a string of as many runes as the suffix: the suffix `a[^a]` took the last
\* byte as a rune and the whole string was stripped
C25_Witness ==
    /\ parsed = Concat(<<Star(Dot), LitA, NotA, End>>)
    /\ prog.kind = "FirstPass"
    /\ prog.suffixProg.length = 2
    /\ 1 \in Returned
    /\ calls[1].s = <<97, 195>>
    /\ calls[1].f.calls = <<"suffix", "regexp">>
    /\ calls[1].f.work = <<>>
    /\ calls[1].f.matched

\* the program is a byPassProgAnchored anchored at the end and not at the
\* beginning
EndAnchoredOnly ==
    prog.kind = "Anchored" /\ prog.anchoredEnd /\ ~prog.anchoredBegin

\* C26: end-anchored results depend only on the tail.  For a
\* byPassProgAnchored of N runes anchored at the end and not at the
\* beginning, and well-formed strings u and w, w of at least N runes,
\* MatchString(u ++ w) = MatchString(w); an input of fewer than N runes
\* never matches.
C26_EndAnchoredTail ==
    \A c \in Returned :
        (EndAnchoredOnly /\ WellFormed(calls[c].s)) =>
            LET s == calls[c].s
                N == prog.length
            IN  /\ RuneCount(s) < N => ~calls[c].f.matched
                /\ \A k \in RuneStarts(s) :
                      RuneCount(From(s, k)) >= N =>
                          calls[c].f.matched = MatchString(prog, From(s, k))
                /\ RuneCount(s) >= N =>
                      calls[c].f.matched
                          = MatchString(prog, From(s, Len(s)
                                                      - lastRunesWidth(s, N)))

\* C26: the program of `é[^a]$` has returned true on "aéb", whose tail "éb"
\* of two runes it matches
C26_Witness ==
    /\ parsed = Concat(<<LitE, NotA, End>>)
    /\ EndAnchoredOnly
    /\ prog.length = 2
    /\ 1 \in Returned
    /\ calls[1].s = <<97, 195, 169, 98>>
    /\ calls[1].f.matched
    /\ MatchString(prog, <<195, 169, 98>>)

\* the byPassProgAnchored programs the compilation has produced: the program
\* itself, the prefix and the suffix program of a first pass, and those of
\* the branches of an alternation
AnchoredOf(p) ==
    CASE p.kind = "Anchored" -> {p}
      [] p.kind = "FirstPass" -> {p.prefixProg, p.suffixProg} \ {Nil}
      [] OTHER -> {}
AnchoredProgs ==
    IF prog.kind = "Alternate"
    THEN UNION {AnchoredOf(prog.progs[k]) : k \in 1..Len(prog.progs)}
    ELSE AnchoredOf(prog)

\* the runes of the steps lo..hi
RECURSIVE RunesOfSteps(_, _, _)
RunesOfSteps(steps, lo, hi) ==
    IF lo > hi THEN 0 ELSE steps[lo].length + RunesOfSteps(steps, lo + 1, hi)

\* C27: anchor-index invariant.  In every byPassProgAnchored the walk
\* produces (a whole pattern, a peeled prefix or a peeled suffix) every step
\* has anchored = true; if the program is anchored at the beginning, the
\* anchorIndex of step k is not negative and is the sum of the lengths of
\* the steps before k; else (anchored at the end only) it is negative and is
\* minus the sum of the lengths of the steps k..last.
C27_AnchorIndex ==
    \A p \in AnchoredProgs :
        /\ p.anchoredBegin \/ p.anchoredEnd
        /\ \A k \in 1..Len(p.steps) :
              /\ p.steps[k].anchored
              /\ IF p.anchoredBegin
                 THEN /\ p.steps[k].anchorIndex >= 0
                      /\ p.steps[k].anchorIndex
                            = RunesOfSteps(p.steps, 1, k - 1)
                 ELSE /\ p.steps[k].anchorIndex < 0
                      /\ p.steps[k].anchorIndex
                            = -RunesOfSteps(p.steps, k, Len(p.steps))

\* C27: `a[^a]a{2}$` is compiled to the steps `a`, `[^a]` and `aa`, anchored
\* 4, 3 and 2 runes from the end
C27_Witness ==
    /\ parsed = Concat(<<LitA, NotA, Repeat(LitA, 2, 2), End>>)
    /\ prog.kind = "Anchored"
    /\ ~prog.anchoredBegin
    /\ Len(prog.steps) = 3
    /\ prog.steps[1].anchorIndex = -4
    /\ prog.steps[2].anchorIndex = -3
    /\ prog.steps[3].anchorIndex = -2
    /\ prog.steps[3].length = 2

\* the nodes outside the fixed-length sublanguage
UnsupportedOps ==
    {"OpCapture", "OpStar", "OpPlus", "OpQuest", "OpBeginLine", "OpEndLine",
     "OpWordBoundary", "OpNoWordBoundary", "OpEmptyMatch", "OpAlternate"}

\* t contains, at any depth, a node outside the fixed-length sublanguage or
\* a repeat whose bounds differ
RECURSIVE HasUnsupported(_)
HasUnsupported(t) ==
    \/ t.Op \in UnsupportedOps
    \/ t.Op = "OpRepeat" /\ t.Min # t.Max
    \/ \E k \in 1..Len(t.Sub) : HasUnsupported(t.Sub[k])

\* t contains such a node where the walk visits it: not below a repeat
\* {0,0}, whose child is walked zero times
RECURSIVE VisitsUnsupported(_)
VisitsUnsupported(t) ==
    \/ t.Op \in UnsupportedOps
    \/ t.Op = "OpRepeat" /\ t.Min # t.Max
    \/ /\ ~(t.Op = "OpRepeat" /\ t.Min <= 0)
       /\ \E k \in 1..Len(t.Sub) : VisitsUnsupported(t.Sub[k])

\* a program built from a walk that did not bail out
IsLinear(p) == p.kind \in {"Anchored", "Unanchored", "Unmatchable"}

\* C28 as claimed: unsupported nodes force a bail-out.  If the tree walked
\* for a linear build (the pattern, or a branch of a top-level alternation)
\* contains a capture, star, plus, question, a repeat with min # max, a
\* begin-of-line, end-of-line, word boundary, no-word-boundary, empty match
\* or an alternation, the walk bails out: no anchored, unanchored or
\* unmatchable program is produced from it.
C28_UnsupportedBails ==
    prog # Nil =>
        IF parsed.Op = "OpAlternate"
        THEN \A k \in 1..Len(parsed.Sub) :
                HasUnsupported(parsed.Sub[k]) =>
                    \/ prog = notByPass
                    \/ prog.kind = "Alternate" /\ ~IsLinear(prog.progs[k])
        ELSE HasUnsupported(parsed) => ~IsLinear(prog)

\* C28 as amended: the same of every such node that does not lie below a
\* repeat {0,0}, whose child the walk does not visit.
C28_VisitedUnsupportedBails ==
    prog # Nil =>
        IF parsed.Op = "OpAlternate"
        THEN \A k \in 1..Len(parsed.Sub) :
                VisitsUnsupported(parsed.Sub[k]) =>
                    \/ prog = notByPass
                    \/ prog.kind = "Alternate" /\ ~IsLinear(prog.progs[k])
        ELSE VisitsUnsupported(parsed) => ~IsLinear(prog)

\* C28: `a(?:é(?:a|é)){2}`, with an alternation inside a repeat {2,2} inside
\* a concatenation, has been compiled to notByPass
C28_Witness ==
    /\ parsed = Concat(<<LitA,
                         Repeat(Concat(<<LitE, Alternate(<<LitA, LitE>>)>>),
                                2, 2)>>)
    /\ VisitsUnsupported(parsed)
    /\ prog = notByPass

\* the leaves of a tree in the order the walk meets them: the children of a
\* concatenation one after the other, the child of a Repeat{n,n} n times
RECURSIVE Leaves(_)
RECURSIVE LeavesOf(_)
RECURSIVE LeavesTimes(_, _)
Leaves(t) ==
    CASE t.Op = "OpConcat" -> LeavesOf(t.Sub)
      [] t.Op = "OpRepeat" /\ t.Min = t.Max -> LeavesTimes(t.Sub[1], t.Min)
      [] OTHER -> <<t>>
LeavesOf(subs) ==
    IF subs = <<>> THEN <<>> ELSE Leaves(Head(subs)) \o LeavesOf(Tail(subs))
LeavesTimes(t, n) ==
    IF n <= 0 THEN <<>> ELSE Leaves(t) \o LeavesTimes(t, n - 1)

\* the number of bytes that encode the runes
RECURSIVE BytesOfRunes(_)
BytesOfRunes(runes) ==
    IF runes = <<>> THEN 0 ELSE RuneLen(Head(runes)) + BytesOfRunes(Tail(runes))

\* the runs of the leaves k..: a run is a maximal sequence of consecutive
\* OpLiteral leaves met before any `$` (their runes, one after the other),
\* or one leaf that matches a single rune (an empty run); nothing is added
\* after a `$`
RECURSIVE RunsOf(_, _, _, _)
RunsOf(leaves, k, runs, open) ==
    IF k > Len(leaves) THEN runs
    ELSE LET leaf == leaves[k] IN
         CASE leaf.Op = "OpEndText" -> runs
           [] leaf.Op = "OpLiteral" ->
                IF open
                THEN RunsOf(leaves, k + 1,
                            [runs EXCEPT ![Len(runs)] = @ \o leaf.Rune], TRUE)
                ELSE RunsOf(leaves, k + 1, Append(runs, leaf.Rune), TRUE)
           [] leaf.Op \in {"OpCharClass", "OpAnyChar", "OpAnyCharNotNL"} ->
                RunsOf(leaves, k + 1, Append(runs, <<>>), FALSE)
           [] OTHER -> RunsOf(leaves, k + 1, runs, open)

\* the steps are those of the runs: a literal step for each run of
\* literals, with the runes of the run, their count and their byte length,
\* and a step of another kind for each other run
StepsAreRuns(steps, runs) ==
    /\ Len(steps) = Len(runs)
    /\ \A k \in 1..Len(steps) :
          IF runs[k] = <<>> THEN steps[k].op # "byPassOpLiteral"
          ELSE /\ steps[k].op = "byPassOpLiteral"
               /\ steps[k].literal = RunesToString(runs[k])
               /\ steps[k].length = Len(runs[k])
               /\ steps[k].minWidth = BytesOfRunes(runs[k])
               /\ steps[k].maxWidth = BytesOfRunes(runs[k])

\* the children the suffix program is built from: those after the last one
\* that bails out
SuffixWalked ==
    SubSeq(SuffixInput, LastBail(SuffixInput) + 2, Len(SuffixInput))

\* C29: literal merging.  The OpLiteral nodes the walk meets one after the
\* other, directly in a concatenation or through a Repeat{n,n}, before any
\* `$`, make one literal step: its literal is their runes one after the
\* other, its length the number of runes, its minWidth and maxWidth the
\* number of bytes that encode them, and the length of the program counts
\* the runes of all its steps.  A literal met after a `$` does not extend
\* the step before the `$`.  Stated of the program of a whole pattern and of
\* the suffix program of a first pass.
C29_LiteralMerging ==
    /\ prog.kind \in {"Anchored", "Unanchored"}
          => /\ StepsAreRuns(prog.steps, RunsOf(Leaves(parsed), 1, <<>>, FALSE))
             /\ prog.length = RunesOfSteps(prog.steps, 1, Len(prog.steps))
    /\ SuffixStored
          => /\ StepsAreRuns(prog.suffixProg.steps,
                             RunsOf(LeavesOf(SuffixWalked), 1, <<>>, FALSE))
             /\ prog.suffixProg.length
                   = RunesOfSteps(prog.suffixProg.steps, 1,
                                  Len(prog.suffixProg.steps))

\* C29: `aé` followed by `a{2}` is compiled to one literal step `aéaa` of 4
\* runes and 5 bytes; the suffix of `.*a$a$` is the step `a` alone
C29_Witness ==
    /\ prog.kind = "Unanchored"
    /\ \E k \in 1..Len(parsed.Sub) : parsed.Sub[k].Op = "OpRepeat"
    /\ \E k \in 1..(Len(parsed.Sub) - 1) :
          parsed.Sub[k].Op = "OpLiteral" /\ parsed.Sub[k + 1].Op = "OpLiteral"
    /\ Len(prog.steps) = 1
    /\ prog.steps[1].length >= 4
    /\ prog.steps[1].minWidth > prog.steps[1].length

\* the linear programs of a compiled program: the program of a whole
\* pattern, the prefix and the suffix program of a first pass, and those of
\* the branches of an alternation
LinearOf(p) ==
    CASE p.kind \in {"Anchored", "Unanchored"} -> {p}
      [] p.kind = "FirstPass" -> {p.prefixProg, p.suffixProg} \ {Nil}
      [] OTHER -> {}
LinearProgs ==
    IF prog.kind = "Alternate"
    THEN UNION {LinearOf(prog.progs[k]) : k \in 1..Len(prog.progs)}
    ELSE LinearOf(prog)

\* the sum of the minWidth of the steps lo..hi
RECURSIVE MinWidthOfSteps(_, _, _)
MinWidthOfSteps(steps, lo, hi) ==
    IF lo > hi THEN 0
    ELSE steps[lo].minWidth + MinWidthOfSteps(steps, lo + 1, hi)

\* C30: width metadata after compilation.  In every compiled linear program
\* each step has length >= 1 and minWidth >= length; a literal step has
\* minWidth = maxWidth = the number of bytes of its literal and every other
\* step has maxWidth = -1 (unknown); previousLength of step k is the sum of
\* the lengths of the steps before k; minNextWidth of step k is the
\* minWidth of the program minus the sum of the minWidth of the steps before
\* k; the minWidth of the program is the sum of the minWidth of its steps
\* and its maxWidth is -1 iff the maxWidth of one of its steps is.
C30_WidthMetadata ==
    \A p \in LinearProgs :
        /\ \A k \in 1..Len(p.steps) :
              /\ p.steps[k].length >= 1
              /\ p.steps[k].minWidth >= p.steps[k].length
              /\ IF p.steps[k].op = "byPassOpLiteral"
                 THEN /\ p.steps[k].minWidth = Len(p.steps[k].literal)
                      /\ p.steps[k].maxWidth = Len(p.steps[k].literal)
                 ELSE p.steps[k].maxWidth = -1
              /\ p.steps[k].previousLength = RunesOfSteps(p.steps, 1, k - 1)
              /\ p.steps[k].minNextWidth
                    = p.minWidth - MinWidthOfSteps(p.steps, 1, k - 1)
        /\ p.minWidth = MinWidthOfSteps(p.steps, 1, Len(p.steps))
        /\ (p.maxWidth = -1)
              <=> (\E k \in 1..Len(p.steps) : p.steps[k].maxWidth = -1)

\* C30: `aé[^a]a` is compiled to the steps `aé` (2 runes, 3 bytes), `[^a]`
\* and `a`: the last step has 3 runes before it and needs 1 of the 5 bytes
\* of the program, whose maxWidth is unknown
C30_Witness ==
    /\ prog.kind = "Unanchored"
    /\ Len(prog.steps) = 3
    /\ prog.steps[1].op = "byPassOpLiteral"
    /\ prog.steps[1].length = 2
    /\ prog.steps[1].minWidth = 3
    /\ prog.steps[2].op = "byPassOpNegativeCharClass"
    /\ prog.steps[3].previousLength = 3
    /\ prog.steps[3].minNextWidth = 1
    /\ prog.minWidth = 5
    /\ prog.maxWidth = -1

====
